---- MODULE Spec2Model ----
(***************************************************************************)
(* A model of aiohttp-rpc:                                                 *)
(*   - the WebSocket client's pending table and receive loop               *)
(*     (aiohttp_rpc/client/websocket.py), specification Spec;              *)
(*   - the server's dispatcher for one inbound payload                     *)
(*     (aiohttp_rpc/server/base.py, server/websocket.py), SpecServer;      *)
(*   - the client's batch result collector                                 *)
(*     (aiohttp_rpc/client/base.py), SpecBatch.                            *)
(* The three parts share no state: each specification holds the variables  *)
(* of the other parts at their initial values.                             *)
(***************************************************************************)
EXTENDS Integers, Sequences, FiniteSets, TLC

VARIABLES
    \* ---- WsJsonRpcClient ----
    pending,          \* _pending: request id -> future (NoFuture: no entry)
    futures,          \* the asyncio.Future created by each send_json call
    calls,            \* each send_json call: its position, data and outcome
    last_task,        \* the exception of the handler task that ran last
    ws_closed,        \* ws_connect.closed
    message_worker,   \* _message_worker: the receive loop
    check_worker,     \* _check_worker: the connection check loop
    has_timeout,      \* _timeout is not None
    \* ---- BaseJsonRpcServer / WsJsonRpcServer ----
    srv_data,         \* the decoded payload given to _process_input_data
    srv_middlewares,  \* self.middlewares
    srv_slots,        \* asyncio.gather's result list, one slot per element
    srv_completed,    \* the elements in the order in which they completed
    srv_pc,           \* position of _process_input_data
    srv_output,       \* what _process_input_data returned or raised
    srv_frames,       \* frames sent by WsJsonRpcServer._handle_ws_message
    \* ---- BaseJsonRpcClient._collect_batch_result ----
    b_requests,       \* batch_request.requests
    b_responses,      \* batch_response.responses
    b_pc,             \* position of _collect_batch_result
    b_i,              \* index of the loop that is running
    responses_map,    \* responses_map
    unlinked_results, \* unlinked_results
    b_result,         \* result
    \* ---- BaseJsonRpcClient: call, notify, batch, batch_notify ----
    cl_api,           \* the method that was called and its arguments
    cl_pc,            \* position of that method
    cl_sent,          \* what was handed to send_json, in order
    cl_json,          \* the json_response that send_json returned
    cl_outcome,       \* what the method returned or raised
    \* ---- utils.py, protocol/request.py, protocol/response.py, errors.py ----
    pr_pc,            \* "input": the function was not applied yet, "applied"
    pr_input,         \* the function applied and its arguments
    pr_output,        \* what it returned or raised
    \* ---- BaseJsonRpcServer._middleware_chain ----
    mw_conf,          \* self.middlewares and the request given to the chain
    mw_chain,         \* _middleware_chain, the outermost handler first
    mw_run,           \* the handler that runs, and what is returned or raised to it
    mw_trace,         \* what each handler saw, in order
    methods,           \* BaseJsonRpcServer.methods: name -> method
    m_log,             \* the add_method calls so far, with what each raised
    m_call,            \* one call of a method: its arguments and its outcome
    \* ---- WsJsonRpcClient: handlers, handler tasks and disconnect ----
    rx_handlers,      \* which of the two handlers of the client are configured
    rx_route,         \* what the task of the last text frame did with it
    rx_tasks,         \* the handler tasks that have not finished
    rx_disconnect,    \* position of disconnect()
    \* ---- WsJsonRpcServer: the receive loop of one connection ----
    wss_loop,         \* position of _handle_ws_request
    wss_tasks,        \* the task of each text frame, in the order of receipt
    wss_closed        \* ws_connect.closed

ws_vars == <<pending, futures, calls, last_task, ws_closed,
             message_worker, check_worker, has_timeout>>
srv_vars == <<srv_data, srv_middlewares, srv_slots, srv_completed, srv_pc,
              srv_output, srv_frames>>
batch_vars == <<b_requests, b_responses, b_pc, b_i, responses_map,
                unlinked_results, b_result>>
client_vars == <<cl_api, cl_pc, cl_sent, cl_json, cl_outcome>>
proto_vars == <<pr_pc, pr_input, pr_output>>
chain_vars == <<mw_conf, mw_chain, mw_run, mw_trace>>
method_vars == <<methods, m_log, m_call>>
rx_vars == <<rx_handlers, rx_route, rx_tasks, rx_disconnect>>
wss_vars == <<wss_loop, wss_tasks, wss_closed>>
vars == <<ws_vars, srv_vars, batch_vars, client_vars, proto_vars, chain_vars, method_vars, rx_vars, wss_vars>>

----------------------------------------------------------------------------
(* Bounds *)

MaxId == 2

\* JSON null / an absent "id" key; request ids are 1..MaxId.
Null == 0
Ids == 1..MaxId
OptIds == Ids \cup {Null}

\* The send_json calls of one connection, and the lengths of a batch.
CallIds == {1, 2}
BatchSizes == {1, 2}
NoFuture == 0

SeqsOfLen(S, sizes) == UNION {[1..n -> S] : n \in sizes}

RECURSIVE SeqsUpTo(_, _)
SeqsUpTo(S, n) ==
    IF n = 0 THEN {<<>>}
    ELSE LET shorter == SeqsUpTo(S, n - 1)
         IN  shorter \cup {Append(s, x) : s \in {t \in shorter : Len(t) = n - 1}, x \in S}

Range(s) == {s[i] : i \in DOMAIN s}

----------------------------------------------------------------------------
(* JSON values on the WebSocket connection *)

\* An object with an optional "id" and an optional "method" key.
JsonObj(id, hasMethod) == [kind |-> "obj", id |-> id, hasMethod |-> hasMethod, items |-> <<>>]
\* A non-empty array of objects.
JsonList(items) == [kind |-> "list", id |-> Null, hasMethod |-> FALSE, items |-> items]
NoValue == [kind |-> "none", id |-> Null, hasMethod |-> FALSE, items |-> <<>>]
ErrorValue(name) == [kind |-> name, id |-> Null, hasMethod |-> FALSE, items |-> <<>>]

RequestObjs == {JsonObj(id, TRUE) : id \in OptIds}
ResponseObjs == {JsonObj(id, FALSE) : id \in OptIds}

\* A batch of requests with ids: the ids are distinct (get_random_id) and
\* taken in ascending order.
Ascending(s) == \A i, j \in 1..Len(s) : i < j => s[i].id < s[j].id

\* What a caller hands to send_json: one request or one notification, a batch
\* of requests, or a batch that is one notification.
SendData == RequestObjs
            \cup {JsonList(s) : s \in {t \in SeqsOfLen({JsonObj(id, TRUE) : id \in Ids},
                                                       BatchSizes) : Ascending(t)}}
            \cup {JsonList(<<JsonObj(Null, TRUE)>>)}

\* What the peer may send: a response (with or without id), a request, an
\* array of responses with ids, an array that is one response without id, or
\* an array that starts with a request.
Frames == ResponseObjs \cup {JsonObj(Null, TRUE)}
          \cup {JsonList(s) : s \in SeqsOfLen({JsonObj(id, FALSE) : id \in Ids}, BatchSizes)}
          \cup {JsonList(<<JsonObj(Null, FALSE)>>)}
          \cup {JsonList(<<JsonObj(Null, TRUE)>>)}

\* _get_ids_from_json
RECURSIVE ItemIds(_)
ItemIds(items) ==
    IF items = <<>> THEN <<>>
    ELSE IF Head(items).id # Null THEN <<Head(items).id>> \o ItemIds(Tail(items))
    ELSE ItemIds(Tail(items))

GetIdsFromJson(data) ==
    IF data.kind = "obj" /\ data.id # Null THEN <<data.id>>
    ELSE IF data.kind = "list" THEN ItemIds(data.items)
    ELSE <<>>

\* JsonRpcRequest.is_notification / JsonRpcBatchRequest.is_notification
IsNotification(data) ==
    IF data.kind = "obj" THEN data.id = Null
    ELSE \A i \in DOMAIN data.items : data.items[i].id = Null

----------------------------------------------------------------------------
(* asyncio.Future *)

NewFuture == [state |-> "pending", value |-> NoValue]
UnusedFuture == [state |-> "unused", value |-> NoValue]

\* Future.set_result / set_exception: a future that is done (or cancelled)
\* raises asyncio.InvalidStateError and keeps its state.
FutureDone(fut) == fut.state \in {"result", "exception", "cancelled"}

SetResult(futs, f, value) ==
    IF futs[f].state = "pending"
    THEN [futures |-> [futs EXCEPT ![f] = [state |-> "result", value |-> value]], exc |-> "none"]
    ELSE [futures |-> futs, exc |-> "InvalidStateError"]

SetException(futs, f, error) ==
    IF futs[f].state = "pending"
    THEN [futures |-> [futs EXCEPT ![f] = [state |-> "exception", value |-> error]], exc |-> "none"]
    ELSE [futures |-> futs, exc |-> "InvalidStateError"]

----------------------------------------------------------------------------
(* WsJsonRpcClient: the pending table *)

EmptyPending == [id \in Ids |-> NoFuture]

PendingFutures(pend) == {pend[id] : id \in Ids} \ {NoFuture}

\* for request_id in request_ids: self._pending[request_id] = future
RECURSIVE Register(_, _, _)
Register(pend, ids, f) ==
    IF ids = <<>> THEN pend
    ELSE Register([pend EXCEPT ![Head(ids)] = f], Tail(ids), f)

\* A _notify_all_about_error that fails only the future registered last.
NotifyAllAboutErrorLastOnly(pend, futs, error) ==
    [pending |-> EmptyPending,
     futures |-> [f \in DOMAIN futs |->
                    IF /\ f \in PendingFutures(pend)
                       /\ \A g \in PendingFutures(pend) : g <= f
                    THEN SetException(futs, f, error).futures[f]
                    ELSE futs[f]]]

\* _notify_all_about_error: every future of the table gets the error, a future
\* that is already done is skipped (InvalidStateError is caught), the table is cleared.
NotifyAllAboutError(pend, futs, error) ==
    [pending |-> EmptyPending,
     futures |-> [f \in DOMAIN futs |->
                    IF f \in PendingFutures(pend)
                    THEN SetException(futs, f, error).futures[f]
                    ELSE futs[f]]]

\* A _notify_about_result that gives the result to the oldest future that is
\* still pending, whatever id the response carries.
NotifyAboutResultOfOldest(pend, futs, response_id, json_response) ==
    LET waiting == {f \in DOMAIN futs : futs[f].state = "pending"}
        popped == [pend EXCEPT ![response_id] = NoFuture]
    IN  IF waiting # {}
        THEN LET future == CHOOSE f \in waiting : \A g \in waiting : f <= g
                 r == SetResult(futs, future, json_response)
             IN  [pending |-> popped, futures |-> r.futures, exc |-> r.exc]
        ELSE [pending |-> popped, futures |-> futs, exc |-> "none"]

\* _notify_about_result: pop the id; set the result of its future, if any.
NotifyAboutResult(pend, futs, response_id, json_response) ==
    LET future == pend[response_id]
        popped == [pend EXCEPT ![response_id] = NoFuture]
    IN  IF future # NoFuture
        THEN LET r == SetResult(futs, future, json_response)
             IN  [pending |-> popped, futures |-> r.futures, exc |-> r.exc]
        ELSE [pending |-> popped, futures |-> futs, exc |-> "none"]

\* _notify_about_results: pop every id; only the first future found gets the
\* result. An exception raised by set_result ends the loop.
RECURSIVE NotifyLoop(_, _, _, _, _)
NotifyLoop(pend, futs, response_ids, json_response, is_processed) ==
    IF response_ids = <<>>
    THEN [pending |-> pend, futures |-> futs, exc |-> "none"]
    ELSE LET response_id == Head(response_ids)
             future == pend[response_id]
             popped == [pend EXCEPT ![response_id] = NoFuture]
         IN  IF future # NoFuture /\ ~is_processed
             THEN LET r == SetResult(futs, future, json_response)
                  IN  IF r.exc # "none"
                      THEN [pending |-> popped, futures |-> futs, exc |-> r.exc]
                      ELSE NotifyLoop(popped, r.futures, Tail(response_ids),
                                      json_response, TRUE)
             ELSE NotifyLoop(popped, futs, Tail(response_ids), json_response,
                             is_processed)

NotifyAboutResults(pend, futs, response_ids, json_response) ==
    NotifyLoop(pend, futs, response_ids, json_response, FALSE)

\* A _handle_single_json_response that looks for the id before the method key.
HandleSingleJsonResponseIdFirst(pend, futs, json_response) ==
    IF json_response.id # Null /\ pend[json_response.id] # NoFuture
    THEN NotifyAboutResult(pend, futs, json_response.id, json_response)
            @@ [route |-> "result"]
    ELSE IF json_response.hasMethod
    THEN [pending |-> pend, futures |-> futs, exc |-> "none", route |-> "request"]
    ELSE [pending |-> pend, futures |-> futs, exc |-> "none", route |-> "unprocessed"]

\* _handle_single_json_response
HandleSingleJsonResponse(pend, futs, json_response) ==
    IF json_response.hasMethod
    THEN [pending |-> pend, futures |-> futs, exc |-> "none", route |-> "request"]
    ELSE IF json_response.id # Null /\ pend[json_response.id] # NoFuture
    THEN NotifyAboutResult(pend, futs, json_response.id, json_response)
            @@ [route |-> "result"]
    ELSE [pending |-> pend, futures |-> futs, exc |-> "none", route |-> "unprocessed"]

\* _handle_json_responses
HandleJsonResponses(pend, futs, json_responses) ==
    IF json_responses.items[1].hasMethod
    THEN [pending |-> pend, futures |-> futs, exc |-> "none", route |-> "request"]
    ELSE LET response_ids == GetIdsFromJson(json_responses)
         IN  IF response_ids # <<>>
             THEN NotifyAboutResults(pend, futs, response_ids, json_responses)
                    @@ [route |-> "result"]
             ELSE [pending |-> pend, futures |-> futs, exc |-> "none",
                   route |-> "unprocessed"]

\* Text frames that are not an object or a non-empty array: text that is not
\* JSON ("invalid"), a JSON value that is falsy ("falsy": "", [], {}, 0,
\* false, null), a non-empty JSON string, whose items are its characters
\* ("str"), and a number or true ("other").
JsonChar == [kind |-> "char", id |-> Null, hasMethod |-> FALSE, items |-> <<>>]
JsonStr == [kind |-> "str", id |-> Null, hasMethod |-> FALSE, items |-> <<JsonChar>>]
BadFrames == {ErrorValue("invalid"), ErrorValue("falsy"), ErrorValue("other"), JsonStr}

\* _handle_single_ws_message: text that json.loads rejects and a falsy value
\* are dropped, a Mapping and a Sequence are handled, the rest is logged.
HandleSingleWsMessage(pend, futs, frame) ==
    IF frame.kind \in {"invalid", "falsy"}
    THEN [pending |-> pend, futures |-> futs, exc |-> "none", route |-> "dropped"]
    ELSE IF frame.kind = "obj"
    THEN HandleSingleJsonResponse(pend, futs, frame)
    ELSE IF frame.kind \in {"list", "str"}
    THEN HandleJsonResponses(pend, futs, frame)
    ELSE [pending |-> pend, futures |-> futs, exc |-> "none", route |-> "dropped"]

----------------------------------------------------------------------------
(* WsJsonRpcClient: actions *)

NewCall == [pc |-> "new", data |-> NoValue]
NoTask == [exc |-> "none"]

WsInit ==
    /\ pending = EmptyPending
    /\ futures = [c \in CallIds |-> UnusedFuture]
    /\ calls = [c \in CallIds |-> NewCall]
    /\ last_task = NoTask
    /\ ws_closed = FALSE
    /\ message_worker = "running"
    /\ check_worker = "running"  \* connection_check_interval=5, the default
    /\ has_timeout = TRUE        \* timeout=60, the default

\* Calls are numbered in the order in which they are made.
CanStart(c) ==
    /\ calls[c].pc = "new"
    /\ \A d \in CallIds : d < c => calls[d].pc # "new"

\* A send_json(data, without_response=True) that waits for a response.
SendWithoutResponseWaits(c, data) ==
    /\ CanStart(c)
    /\ IsNotification(data)
    /\ futures' = [futures EXCEPT ![c] = NewFuture]
    /\ calls' = [calls EXCEPT ![c] = [pc |-> "waiting", data |-> data]]
    /\ UNCHANGED <<pending, last_task, ws_closed, message_worker,
                   check_worker, has_timeout>>

\* __init__ and connect for every setting of timeout and of
\* connection_check_interval: the check worker exists only when the interval
\* is not None, wait_for is used only when the timeout is not None.
WsInitAnySettings ==
    /\ pending = EmptyPending
    /\ futures = [c \in CallIds |-> UnusedFuture]
    /\ calls = [c \in CallIds |-> NewCall]
    /\ last_task = NoTask
    /\ ws_closed = FALSE
    /\ message_worker = "running"
    /\ check_worker \in {"running", "none"}
    /\ has_timeout \in BOOLEAN

\* send_json(data, without_response=True): the frame is written, nothing is awaited.
SendWithoutResponse(c, data) ==
    /\ CanStart(c)
    /\ IsNotification(data)
    /\ calls' = [calls EXCEPT ![c] = [pc |-> "returned", data |-> data]]
    /\ UNCHANGED <<pending, futures, last_task, ws_closed, message_worker,
                   check_worker, has_timeout>>

\* send_json(data, without_response=True) when send_str raises ConnectionResetError.
SendWithoutResponseReset(c, data) ==
    /\ CanStart(c)
    /\ IsNotification(data)
    /\ ws_closed
    /\ LET n == NotifyAllAboutError(pending, futures, ErrorValue("ServerError"))
       IN  /\ pending' = n.pending
           /\ futures' = n.futures
    /\ calls' = [calls EXCEPT ![c] = [pc |-> "raised", data |-> data]]
    /\ UNCHANGED <<last_task, ws_closed, message_worker, check_worker, has_timeout>>

\* A send_json that hands the frame to the transport before it registers the ids.
SendJsonBeforeRegistering(c, data) ==
    /\ CanStart(c)
    /\ LET request_ids == GetIdsFromJson(data)
       IN  /\ futures' = [futures EXCEPT ![c] = NewFuture]
           /\ pending' = pending
           /\ calls' = [calls EXCEPT ![c] =
                          [pc |-> IF request_ids = <<>> THEN "returned" ELSE "waiting",
                           data |-> data]]
    /\ UNCHANGED <<last_task, ws_closed, message_worker, check_worker, has_timeout>>

\* send_json(data): the ids are registered under one new future, then the frame
\* is written; a call without ids returns at once, the others wait.
SendJson(c, data) ==
    /\ CanStart(c)
    /\ LET request_ids == GetIdsFromJson(data)
       IN  /\ futures' = [futures EXCEPT ![c] = NewFuture]
           /\ pending' = Register(pending, request_ids, c)
           /\ calls' = [calls EXCEPT ![c] =
                          [pc |-> IF request_ids = <<>> THEN "returned" ELSE "waiting",
                           data |-> data]]
    /\ UNCHANGED <<last_task, ws_closed, message_worker, check_worker, has_timeout>>

\* send_json(data) when send_str raises ConnectionResetError: the ids are
\* registered already, every pending future is failed, the call raises.
SendJsonReset(c, data) ==
    /\ CanStart(c)
    /\ ws_closed
    /\ LET request_ids == GetIdsFromJson(data)
           n == NotifyAllAboutError(Register(pending, request_ids, c),
                                    [futures EXCEPT ![c] = NewFuture],
                                    ErrorValue("ServerError"))
       IN  /\ pending' = n.pending
           /\ futures' = n.futures
    /\ calls' = [calls EXCEPT ![c] = [pc |-> "raised", data |-> data]]
    /\ UNCHANGED <<last_task, ws_closed, message_worker, check_worker, has_timeout>>

\* result = await future: the future has a result, the call returns it.
AwaitResult(c) ==
    /\ calls[c].pc = "waiting"
    /\ futures[c].state = "result"
    /\ calls' = [calls EXCEPT ![c].pc = "returned"]
    /\ UNCHANGED <<pending, futures, last_task, ws_closed, message_worker,
                   check_worker, has_timeout>>

\* result = await future: the future has an exception, the call raises it.
AwaitException(c) ==
    /\ calls[c].pc = "waiting"
    /\ futures[c].state = "exception"
    /\ calls' = [calls EXCEPT ![c].pc = "raised"]
    /\ UNCHANGED <<pending, futures, last_task, ws_closed, message_worker,
                   check_worker, has_timeout>>

\* asyncio.wait_for(future, timeout): on expiry the future is cancelled and the
\* call raises TimeoutError; the pending table is not touched.
Timeout(c) ==
    /\ calls[c].pc = "waiting"
    /\ has_timeout
    /\ futures[c].state = "pending"
    /\ futures' = [futures EXCEPT ![c].state = "cancelled"]
    /\ calls' = [calls EXCEPT ![c].pc = "timeout"]
    /\ UNCHANGED <<pending, last_task, ws_closed, message_worker,
                   check_worker, has_timeout>>

\* _handle_ws_messages receives a text frame and creates the handler task,
\* which runs _handle_single_ws_message. The handler does not suspend on its
\* way to the pending table, and the event loop runs the tasks in the order of
\* their creation: the frame is handled in one step.
ReceiveText(frame) ==
    /\ message_worker = "running"
    /\ LET h == HandleSingleWsMessage(pending, futures, frame)
       IN  /\ pending' = h.pending
           /\ futures' = h.futures
           /\ last_task' = [exc |-> h.exc]
    /\ UNCHANGED <<calls, ws_closed, message_worker, check_worker, has_timeout>>

\* The connection closes (the peer or the transport).
CloseWs ==
    /\ ~ws_closed
    /\ ws_closed' = TRUE
    /\ UNCHANGED <<pending, futures, calls, last_task, message_worker,
                   check_worker, has_timeout>>

\* _handle_ws_messages receives CLOSE / CLOSING / CLOSED and ends.
ReceiveClose ==
    /\ message_worker = "running"
    /\ ws_closed
    /\ message_worker' = "done"
    /\ UNCHANGED <<pending, futures, calls, last_task, ws_closed,
                   check_worker, has_timeout>>

\* _check_ws_connection finds ws_connect.closed: every pending future is
\* failed and the loop ends.
CheckWsConnection ==
    /\ check_worker = "running"
    /\ ws_closed
    /\ LET n == NotifyAllAboutError(pending, futures, ErrorValue("ServerError"))
       IN  /\ pending' = n.pending
           /\ futures' = n.futures
    /\ check_worker' = "done"
    /\ UNCHANGED <<calls, last_task, ws_closed, message_worker, has_timeout>>

----------------------------------------------------------------------------
(* BaseJsonRpcServer: one inbound payload *)

MaxBatch == 2

\* What a registered name does when it is called: "ok" returns a result,
\* "unknown" is not in self.methods, "bad_params" fails the signature check,
\* "exception" raises an exception that is not a JsonRpcError in its body.
MethodKinds == {"ok", "unknown", "bad_params", "exception"}

\* One element of the payload: something that is not an object ("nondict"), an
\* object that JsonRpcRequest.load rejects ("malformed": no method, no jsonrpc
\* or a wrong version; "unsupported_params": params that are neither a
\* primitive, a list nor a dict), or a well-formed request.
SrvElem(kind, id, method) == [kind |-> kind, id |-> id, method |-> method]
SrvElems == {SrvElem("nondict", Null, "none")}
            \cup {SrvElem("malformed", id, "none") : id \in OptIds}
            \cup {SrvElem("unsupported_params", id, "none") : id \in OptIds}
            \cup {SrvElem("request", id, m) : id \in OptIds, m \in MethodKinds}

\* The decoded payload: an array, an object, a string (its items are its
\* characters), or another JSON value (a number, a boolean or null).
SrvPayload(kind, items) == [kind |-> kind, items |-> items]
SrvInputs == {SrvPayload("list", s) : s \in SeqsUpTo(SrvElems, MaxBatch)}
             \cup {SrvPayload("obj", <<e>>) : e \in SrvElems \ {SrvElem("nondict", Null, "none")}}
             \cup {SrvPayload("str", s) : s \in SeqsUpTo({SrvElem("nondict", Null, "none")}, MaxBatch)}
             \cup {SrvPayload("other", <<>>)}

\* isinstance(data, typing.Sequence): true of a list and of a str.
IsSequence(data) == data.kind \in {"list", "str"}

\* DEFAULT_MIDDLEWARES, or none (the default of BaseJsonRpcServer).
MiddlewareSets == {<<>>, <<"exception_middleware", "extra_args_middleware">>}

\* A JsonRpcResponse (dumped), None, or an exception that was raised.
SrvResponse(id, error) == [type |-> "response", id |-> id, error |-> error]
SrvNone == [type |-> "none", id |-> Null, error |-> "none"]
SrvRaised(exc) == [type |-> "raised", id |-> Null, error |-> exc]
SrvRunning == [type |-> "running", id |-> Null, error |-> "none"]

\* BaseJsonRpcServer.call and JsonRpcMethod.__call__: the error the call raises.
Call(method) ==
    CASE method = "unknown" -> "MethodNotFound"
      [] method = "bad_params" -> "InvalidParams"
      [] method = "exception" -> "Exception"
      [] OTHER -> "none"

IsJsonRpcError(exc) ==
    exc \in {"InvalidRequest", "MethodNotFound", "InvalidParams", "InternalError",
             "ServerError", "ParseError"}

\* _process_single_request: a JsonRpcError of the call becomes the error of
\* the response; any other exception propagates.
ProcessSingleRequest(request) ==
    LET exc == Call(request.method)
    IN  IF exc = "none" THEN SrvResponse(request.id, "none")
        ELSE IF IsJsonRpcError(exc) THEN SrvResponse(request.id, exc)
        ELSE SrvRaised(exc)

\* A variant that catches JsonRpcError only.
ExceptionMiddlewareErrorsOnly(request, handled) ==
    IF handled.type # "raised" THEN handled
    ELSE IF IsJsonRpcError(handled.error) THEN SrvResponse(request.id, handled.error)
    ELSE handled

\* exception_middleware: a JsonRpcError of the handler becomes a response with
\* that error, any other exception a response with InternalError.
ExceptionMiddleware(request, handled) ==
    IF handled.type # "raised" THEN handled
    ELSE IF IsJsonRpcError(handled.error) THEN SrvResponse(request.id, handled.error)
    ELSE SrvResponse(request.id, "InternalError")

\* extra_args_middleware: adds rpc_request to the extra args and calls the handler.
ExtraArgsMiddleware(request, handled) == handled

\* _load_middlewares: the first middleware of the list is the outermost.
RECURSIVE MiddlewareChain(_, _)
MiddlewareChain(middlewares, request) ==
    IF middlewares = <<>> THEN ProcessSingleRequest(request)
    ELSE LET handled == MiddlewareChain(Tail(middlewares), request)
         IN  IF Head(middlewares) = "exception_middleware"
             THEN ExceptionMiddleware(request, handled)
             ELSE ExtraArgsMiddleware(request, handled)

\* A variant that answers a rejected object without its id.
ProcessSingleJsonRequestWithoutId(json_request, middlewares) ==
    IF json_request.kind = "nondict" THEN SrvResponse(Null, "InvalidRequest")
    ELSE IF json_request.kind = "malformed"
    THEN SrvResponse(Null, "InvalidRequest")
    ELSE IF json_request.kind = "unsupported_params"
    THEN SrvResponse(Null, "InvalidParams")
    ELSE LET response == MiddlewareChain(middlewares, json_request)
         IN  IF response.type = "raised" THEN response
             ELSE IF response.id = Null THEN SrvNone
             ELSE response

\* _process_single_json_request
ProcessSingleJsonRequest(json_request, middlewares) ==
    IF json_request.kind = "nondict" THEN SrvResponse(Null, "InvalidRequest")
    ELSE IF json_request.kind = "malformed"
    THEN SrvResponse(json_request.id, "InvalidRequest")
    ELSE IF json_request.kind = "unsupported_params"
    THEN SrvResponse(json_request.id, "InvalidParams")
    ELSE LET response == MiddlewareChain(middlewares, json_request)
         IN  IF response.type = "raised" THEN response
             ELSE IF response.id = Null THEN SrvNone
             ELSE response

\* A gather that lists the results in the order of completion.
GatherStoreInCompletionOrder(slots, i, value) ==
    LET running == {j \in DOMAIN slots : slots[j].type = "running"}
    IN  [slots EXCEPT ![CHOOSE j \in running : \A k \in running : j <= k] = value]

\* asyncio.gather(..., return_exceptions=True): the result of the i-th
\* awaitable is the i-th element of the list, whenever it completes.
GatherStore(slots, i, value) == [slots EXCEPT ![i] = value]

\* _raise_exception_if_have and the filter of _process_input_data: the first
\* exception of the list is raised; else the values that are not None, in the
\* order of the list; else None.
FirstException(values) ==
    LET idx == {i \in DOMAIN values : values[i].type = "raised"}
    IN  IF idx = {} THEN SrvNone
        ELSE values[CHOOSE i \in idx : \A j \in idx : i <= j]

\* A filter that keeps the None of a notification.
KeepNotifications(values) == values

SkipNotifications(values) == SelectSeq(values, LAMBDA v : v.type # "none")

SrvOutput(type, items) == [type |-> type, items |-> items]
NoOutput == SrvOutput("pending", <<>>)

BatchOutput(values) ==
    IF FirstException(values) # SrvNone
    THEN SrvOutput("raised", <<FirstException(values)>>)
    ELSE IF SkipNotifications(values) = <<>> THEN SrvOutput("none", <<>>)
    ELSE SrvOutput("batch", SkipNotifications(values))

SingleOutput(value) ==
    IF value.type = "raised" THEN SrvOutput("raised", <<value>>)
    ELSE IF value.type = "none" THEN SrvOutput("none", <<>>)
    ELSE SrvOutput("single", <<value>>)

SrvInit ==
    /\ srv_data \in SrvInputs
    /\ srv_middlewares \in MiddlewareSets
    /\ srv_slots = <<>>
    /\ srv_completed = <<>>
    /\ srv_pc = "start"
    /\ srv_output = NoOutput
    /\ srv_frames = <<>>

\* A variant that treats the empty array as a batch without responses.
SrvEmptyBatchAsBatch ==
    /\ srv_pc = "start"
    /\ IsSequence(srv_data)
    /\ srv_data.items = <<>>
    /\ srv_output' = BatchOutput(<<>>)
    /\ srv_pc' = "done"
    /\ UNCHANGED <<srv_data, srv_middlewares, srv_completed, srv_slots, srv_frames>>

\* _process_input_data, an empty sequence: one InvalidRequest response.
SrvEmptyBatch ==
    /\ srv_pc = "start"
    /\ IsSequence(srv_data)
    /\ srv_data.items = <<>>
    /\ srv_output' = SrvOutput("single", <<SrvResponse(Null, "InvalidRequest")>>)
    /\ srv_pc' = "done"
    /\ UNCHANGED <<srv_data, srv_middlewares, srv_completed, srv_slots, srv_frames>>

\* _process_input_data, a non-empty sequence: the elements are processed concurrently.
SrvStartBatch ==
    /\ srv_pc = "start"
    /\ IsSequence(srv_data)
    /\ srv_data.items # <<>>
    /\ srv_slots' = [i \in DOMAIN srv_data.items |-> SrvRunning]
    /\ srv_pc' = "gather"
    /\ UNCHANGED <<srv_data, srv_middlewares, srv_completed, srv_output, srv_frames>>

\* One of the concurrent _process_single_json_request calls completes.
SrvCompleteElement(i) ==
    /\ srv_pc = "gather"
    /\ i \in DOMAIN srv_data.items
    /\ i \notin Range(srv_completed)
    /\ srv_slots' = GatherStore(srv_slots, i,
                                ProcessSingleJsonRequest(srv_data.items[i], srv_middlewares))
    /\ srv_completed' = Append(srv_completed, i)
    /\ UNCHANGED <<srv_data, srv_middlewares, srv_pc, srv_output, srv_frames>>

\* gather returns: the batch output is built from its list.
SrvGatherDone ==
    /\ srv_pc = "gather"
    /\ Len(srv_completed) = Len(srv_data.items)
    /\ srv_output' = BatchOutput(srv_slots)
    /\ srv_pc' = "done"
    /\ UNCHANGED <<srv_data, srv_middlewares, srv_completed, srv_slots, srv_frames>>

\* _process_input_data, an object: one request.
SrvSingle ==
    /\ srv_pc = "start"
    /\ srv_data.kind = "obj"
    /\ srv_output' = SingleOutput(ProcessSingleJsonRequest(srv_data.items[1], srv_middlewares))
    /\ srv_pc' = "done"
    /\ UNCHANGED <<srv_data, srv_middlewares, srv_completed, srv_slots, srv_frames>>

\* _process_input_data, neither an array nor an object: one InvalidRequest response.
SrvNotListOrDict ==
    /\ srv_pc = "start"
    /\ srv_data.kind = "other"
    /\ srv_output' = SrvOutput("single", <<SrvResponse(Null, "InvalidRequest")>>)
    /\ srv_pc' = "done"
    /\ UNCHANGED <<srv_data, srv_middlewares, srv_completed, srv_slots, srv_frames>>

\* WsJsonRpcServer._handle_ws_message after _process_input_data: nothing is
\* sent for None (or when the processing raised); else the output is one frame.
SrvWsSend ==
    /\ srv_pc = "done"
    /\ srv_frames' = IF srv_output.type \in {"none", "raised"} THEN srv_frames
                     ELSE Append(srv_frames, srv_output)
    /\ srv_pc' = "handled"
    /\ UNCHANGED <<srv_data, srv_middlewares, srv_completed, srv_slots, srv_output>>

\* WsJsonRpcServer._handle_ws_message finds ws_connect.closed: ServerError is
\* raised and nothing is sent.
SrvWsClosed ==
    /\ srv_pc = "done"
    /\ srv_output.type \in {"single", "batch"}
    /\ srv_pc' = "ws_closed"
    /\ UNCHANGED <<srv_data, srv_middlewares, srv_completed, srv_slots, srv_output, srv_frames>>

----------------------------------------------------------------------------
(* BaseJsonRpcServer._middleware_chain: one request through the chain *)

MaxMiddlewares == 3

\* The middlewares: the two of DEFAULT_MIDDLEWARES, a middleware that awaits
\* the handler and returns its response ("custom"), and middlewares that
\* raise a JsonRpcError, or another exception, instead of awaiting the handler.
MiddlewareKinds == {"exception_middleware", "extra_args_middleware", "custom",
                    "raises_error", "raises_exception"}

\* One handler of the chain; `listed` is the position of the middleware in
\* self.middlewares, 0 for _process_single_request.
ChainEntry(name, listed) == [name |-> name, listed |-> listed]
ProcessorEntry == ChainEntry("_process_single_request", 0)

\* A variant that wraps the middlewares in listed order.
RECURSIVE LoadInListedOrder(_, _, _)
LoadInListedOrder(middlewares, k, chain) ==
    IF k > Len(middlewares) THEN chain
    ELSE LoadInListedOrder(middlewares, k + 1, <<ChainEntry(middlewares[k], k)>> \o chain)
LoadMiddlewaresInListedOrder(middlewares) ==
    LoadInListedOrder(middlewares, 1, <<ProcessorEntry>>)

\* _load_middlewares: the chain starts as _process_single_request; each
\* middleware of reversed(self.middlewares) wraps the chain built so far.
RECURSIVE LoadReversed(_, _, _)
LoadReversed(middlewares, k, chain) ==
    IF k = 0 THEN chain
    ELSE LoadReversed(middlewares, k - 1, <<ChainEntry(middlewares[k], k)>> \o chain)
LoadMiddlewares(middlewares) ==
    LoadReversed(middlewares, Len(middlewares), <<ProcessorEntry>>)

MwConf(middlewares, request) == [middlewares |-> middlewares, request |-> request]
\* pc "down": chain[depth] is called with the request; "up": value is
\* returned or raised to chain[depth], to the caller of the chain at depth 0.
MwRun(pc, depth, value) == [pc |-> pc, depth |-> depth, value |-> value]
\* What a handler saw: the request, or what its handler returned or raised.
MwEvent(listed, ev, value) == [listed |-> listed, ev |-> ev, value |-> value]

ChainInit ==
    /\ \E middlewares \in SeqsUpTo(MiddlewareKinds, MaxMiddlewares),
          id \in OptIds, method \in MethodKinds :
          /\ mw_conf = MwConf(middlewares, SrvElem("request", id, method))
          /\ mw_chain = LoadMiddlewares(middlewares)
    /\ mw_run = MwRun("down", 1, SrvNone)
    /\ mw_trace = <<>>

ChainIdle ==
    /\ mw_conf = <<>>
    /\ mw_chain = <<>>
    /\ mw_run = <<>>
    /\ mw_trace = <<>>

\* A middleware is called and awaits its handler.
MwAwaitHandler ==
    /\ mw_run.pc = "down"
    /\ mw_chain[mw_run.depth].name \in {"exception_middleware", "extra_args_middleware", "custom"}
    /\ mw_trace' = Append(mw_trace, MwEvent(mw_chain[mw_run.depth].listed, "request", SrvNone))
    /\ mw_run' = MwRun("down", mw_run.depth + 1, SrvNone)
    /\ UNCHANGED <<mw_conf, mw_chain>>

\* A middleware is called and raises.
MwMiddlewareRaises ==
    /\ mw_run.pc = "down"
    /\ mw_chain[mw_run.depth].name \in {"raises_error", "raises_exception"}
    /\ mw_trace' = Append(mw_trace, MwEvent(mw_chain[mw_run.depth].listed, "request", SrvNone))
    /\ mw_run' = MwRun("up", mw_run.depth - 1,
                       SrvRaised(IF mw_chain[mw_run.depth].name = "raises_error"
                                 THEN "ServerError" ELSE "Exception"))
    /\ UNCHANGED <<mw_conf, mw_chain>>

\* _process_single_request is called.
MwProcessSingleRequest ==
    /\ mw_run.pc = "down"
    /\ mw_chain[mw_run.depth] = ProcessorEntry
    /\ mw_trace' = Append(mw_trace, MwEvent(0, "request", SrvNone))
    /\ mw_run' = MwRun("up", mw_run.depth - 1, ProcessSingleRequest(mw_conf.request))
    /\ UNCHANGED <<mw_conf, mw_chain>>

\* The handler of a middleware returns or raises: exception_middleware
\* makes a response of an exception, the others return the response or let
\* the exception through.
MwHandlerReturns ==
    /\ mw_run.pc = "up"
    /\ mw_run.depth >= 1
    /\ mw_trace' = Append(mw_trace, MwEvent(mw_chain[mw_run.depth].listed, "handled", mw_run.value))
    /\ mw_run' = MwRun("up", mw_run.depth - 1,
                       IF mw_chain[mw_run.depth].name = "exception_middleware"
                       THEN ExceptionMiddleware(mw_conf.request, mw_run.value)
                       ELSE mw_run.value)
    /\ UNCHANGED <<mw_conf, mw_chain>>

----------------------------------------------------------------------------
(* BaseJsonRpcClient._collect_batch_result *)

MaxRequests == 2
MaxResponses == 3

\* The ids of the batch's requests and responses (Null: a notification, or a
\* response without id).
BatchIds == {1, 2}
OptBatchIds == BatchIds \cup {Null}

\* A JsonRpcResponse of the batch response: result and error as loaded.
BatchResponse(id, result, error) == [id |-> id, result |-> result, error |-> error]
BatchResponses == {BatchResponse(id, "r1", "None") : id \in OptBatchIds}
                  \cup {BatchResponse(id, "None", "e1") : id \in OptBatchIds}

\* constants.EMPTY_VALUES, for a result or an error
EmptyValues == {"None", "NOTHING"}

\* An entry of responses_map or of the result: a plain value (a result or an
\* error), a DuplicatedResults, an UnlinkedResults, or None.
Entry(kind, data) == [kind |-> kind, data |-> data]
PlainValue(v) == Entry("value", <<v>>)
DuplicatedResults(data) == Entry("duplicated", data)
UnlinkedResults(data) == Entry("unlinked", data)
NoneEntry == Entry("None", <<>>)
Absent == Entry("absent", <<>>)

\* value = response.result if response.error in EMPTY_VALUES else response.error
ResponseValue(response) ==
    IF response.error \in EmptyValues THEN response.result ELSE response.error

\* A variant that keeps only the last value of an id.
AddToMapOverwriting(map, response) ==
    [map EXCEPT ![response.id] = PlainValue(ResponseValue(response))]

\* The body of the loop over batch_response.responses, for one response with
\* an id: a second value under an id makes a DuplicatedResults of the two, a
\* later one is added to it.
AddToMap(map, response) ==
    LET value == ResponseValue(response)
        old == map[response.id]
    IN  IF old.kind # "absent"
        THEN IF old.kind = "duplicated"
             THEN [map EXCEPT ![response.id] = DuplicatedResults(Append(old.data, value))]
             ELSE [map EXCEPT ![response.id] = DuplicatedResults(<<old.data[1], value>>)]
        ELSE [map EXCEPT ![response.id] = PlainValue(value)]

\* The body of the loop, for any response: one without id goes to unlinked_results.
CollectOne(map, unlinked, response) ==
    IF response.id = Null
    THEN [map |-> map,
          unlinked |-> UnlinkedResults(Append(unlinked.data, ResponseValue(response)))]
    ELSE [map |-> AddToMap(map, response), unlinked |-> unlinked]

\* if not unlinked_results: unlinked_results = None
NoneIfEmpty(unlinked) == IF unlinked.data = <<>> THEN NoneEntry ELSE unlinked

\* A variant that takes the responses in the order of their arrival: the
\* request at position n gets the n-th value.
ResultForByArrival(map, unlinked, request_id) ==
    IF Len(b_result) < Len(b_responses)
    THEN PlainValue(ResponseValue(b_responses[Len(b_result) + 1]))
    ELSE unlinked

\* The body of the loop over batch_request.requests:
\* responses_map.get(request.id, unlinked_results), or unlinked_results for a notification.
ResultFor(map, unlinked, request_id) ==
    IF request_id = Null THEN unlinked
    ELSE IF map[request_id].kind # "absent" THEN map[request_id]
    ELSE unlinked

\* batch() gives _collect_batch_result a batch with at least one request that
\* is not a notification, and a batch response that is not empty.
BatchInit ==
    /\ b_requests \in {r \in SeqsUpTo(OptBatchIds, MaxRequests) :
                          \E i \in DOMAIN r : r[i] # Null}
    /\ b_responses \in SeqsUpTo(BatchResponses, MaxResponses) \ {<<>>}
    /\ b_pc = "responses"
    /\ b_i = 1
    /\ responses_map = [id \in BatchIds |-> Absent]
    /\ unlinked_results = UnlinkedResults(<<>>)
    /\ b_result = <<>>

\* for response in batch_response.responses
CollectResponse ==
    /\ b_pc = "responses"
    /\ b_i <= Len(b_responses)
    /\ LET r == CollectOne(responses_map, unlinked_results, b_responses[b_i])
       IN  /\ responses_map' = r.map
           /\ unlinked_results' = r.unlinked
    /\ b_i' = b_i + 1
    /\ UNCHANGED <<b_requests, b_responses, b_pc, b_result>>

\* The first loop has ended.
CollectUnlinked ==
    /\ b_pc = "responses"
    /\ b_i > Len(b_responses)
    /\ unlinked_results' = NoneIfEmpty(unlinked_results)
    /\ b_pc' = "requests"
    /\ b_i' = 1
    /\ UNCHANGED <<b_requests, b_responses, responses_map, b_result>>

\* for request in batch_request.requests
CollectRequest ==
    /\ b_pc = "requests"
    /\ b_i <= Len(b_requests)
    /\ b_result' = Append(b_result, ResultFor(responses_map, unlinked_results, b_requests[b_i]))
    /\ b_i' = b_i + 1
    /\ UNCHANGED <<b_requests, b_responses, b_pc, responses_map, unlinked_results>>

\* return result
CollectReturn ==
    /\ b_pc = "requests"
    /\ b_i > Len(b_requests)
    /\ b_pc' = "done"
    /\ UNCHANGED <<b_requests, b_responses, b_i, responses_map, unlinked_results, b_result>>

----------------------------------------------------------------------------
(* errors.py and protocol/response.py: errors and response objects *)

\* JsonRpcError.code = None; `code or self.code` treats None and 0 alike.
NoCode == 0

ErrorClasses == {"JsonRpcError", "ServerError", "ParseError", "InvalidRequest",
                 "MethodNotFound", "InvalidParams", "InternalError"}

\* The class attribute `code`.
ClassCode(cls) ==
    CASE cls = "ServerError" -> -32000
      [] cls = "ParseError" -> -32700
      [] cls = "InvalidRequest" -> -32600
      [] cls = "MethodNotFound" -> -32601
      [] cls = "InvalidParams" -> -32602
      [] cls = "InternalError" -> -32603
      [] OTHER -> NoCode

\* The class attribute `message` ("None": no message).
ClassMessage(cls) ==
    CASE cls = "ServerError" -> "Server error."
      [] cls = "ParseError" -> "Invalid JSON was received by the server."
      [] cls = "InvalidRequest" -> "The JSON sent is not a valid Request object."
      [] cls = "MethodNotFound" -> "The method does not exist / is not available."
      [] cls = "InvalidParams" -> "Invalid method parameter(s)."
      [] cls = "InternalError" -> "Internal JSON-RPC error."
      [] OTHER -> "None"

\* An error object; NoError is None.
ErrorObj(cls, code, message, data) ==
    [kind |-> "error", cls |-> cls, code |-> code, message |-> message, data |-> data]
NoError == [kind |-> "none", cls |-> "none", code |-> NoCode, message |-> "None",
            data |-> "None"]

\* JsonRpcError.__init__: an empty or absent message and a zero or absent
\* code fall back to the class attributes; an error without code fails the assert.
JsonRpcErrorInit(cls, message, data, code) ==
    LET m == IF message \in {"None", ""} THEN ClassMessage(cls) ELSE message
        c == IF code = NoCode THEN ClassCode(cls) ELSE code
    IN  IF c = NoCode
        THEN [exc |-> "AssertionError", error |-> NoError]
        ELSE [exc |-> "none", error |-> ErrorObj(cls, c, m, data)]

\* JsonRpcError.__eq__: code, message and data, not the class.
ErrorEq(a, b) == a.code = b.code /\ a.message = b.message /\ a.data = b.data

\* BaseJsonRpcClient.error_map: the class registered for a code, else JsonRpcError.
ErrorMapGet(code) ==
    IF \E cls \in ErrorClasses : cls # "JsonRpcError" /\ ClassCode(cls) = code
    THEN CHOOSE cls \in ErrorClasses : cls # "JsonRpcError" /\ ClassCode(cls) = code
    ELSE "JsonRpcError"

\* The value of the "error" key on the wire: absent, something that is not an
\* object, or an object with or without "code" and "message" ("data" absent
\* or null: "None").
WireError(kind, hasCode, code, hasMessage, message, data) ==
    [kind |-> kind, hasCode |-> hasCode, code |-> code, hasMessage |-> hasMessage,
     message |-> message, data |-> data]
NoWireError == WireError("absent", FALSE, NoCode, FALSE, "None", "None")

\* A decoded response on the wire: an object, or another JSON value; "jsonrpc"
\* and "result" may be absent, an absent "id" reads as null.
WireResponse(kind, jsonrpc, id, result, error) ==
    [kind |-> kind, jsonrpc |-> jsonrpc, id |-> id, result |-> result, error |-> error]

\* A JsonRpcResponse.
Response(id, jsonrpc, result, error) ==
    [id |-> id, jsonrpc |-> jsonrpc, result |-> result, error |-> error]
NoResponse == Response(Null, "2.0", "None", NoError)

\* What a load returns or raises, and the check that raised.
Loaded(response) == [exc |-> "none", check |-> "none", response |-> response]
LoadRaised(exc, check) == [exc |-> exc, check |-> check, response |-> NoResponse]

\* JsonRpcResponse._add_error
AddError(response, error, use_map) ==
    IF error.kind # "obj" THEN LoadRaised("InvalidRequest", "error_type")
    ELSE IF ~(error.hasCode /\ error.hasMessage)
    THEN LoadRaised("InvalidRequest", "error_keys")
    ELSE LET exception_class == IF use_map THEN ErrorMapGet(error.code)
                                ELSE "JsonRpcError"
             e == JsonRpcErrorInit(exception_class, error.message, error.data, error.code)
         IN  IF e.exc # "none" THEN LoadRaised(e.exc, "error_init")
             ELSE Loaded([response EXCEPT !.error = e.error])

\* A variant that looks for "result" and "error" before the version.
ResponseLoadResultFirst(data, use_map) ==
    IF data.kind # "obj" THEN LoadRaised("InvalidRequest", "type")
    ELSE IF data.result = "absent" /\ data.error.kind = "absent"
    THEN LoadRaised("InvalidRequest", "result_or_error")
    ELSE IF data.jsonrpc # "2.0" THEN LoadRaised("InvalidRequest", "version")
    ELSE LET response == Response(data.id, data.jsonrpc,
                                  IF data.result = "absent" THEN "None" ELSE data.result,
                                  NoError)
         IN  IF data.error.kind # "absent"
             THEN AddError(response, data.error, use_map)
             ELSE Loaded(response)

\* JsonRpcResponse.load with _validate_json_response
ResponseLoad(data, use_map) ==
    IF data.kind # "obj" THEN LoadRaised("InvalidRequest", "type")
    ELSE IF data.jsonrpc # "2.0" THEN LoadRaised("InvalidRequest", "version")
    ELSE IF data.result = "absent" /\ data.error.kind = "absent"
    THEN LoadRaised("InvalidRequest", "result_or_error")
    ELSE LET response == Response(data.id, data.jsonrpc,
                                  IF data.result = "absent" THEN "None" ELSE data.result,
                                  NoError)
         IN  IF data.error.kind # "absent"
             THEN AddError(response, data.error, use_map)
             ELSE Loaded(response)

\* A variant that leaves out the data of the error.
ResponseDumpWithoutData(response) ==
    IF response.error = NoError
    THEN WireResponse("obj", response.jsonrpc, response.id, response.result, NoWireError)
    ELSE WireResponse("obj", response.jsonrpc, response.id, "absent",
                      WireError("obj", TRUE, response.error.code, TRUE,
                                response.error.message, "None"))

\* JsonRpcResponse.dump
ResponseDump(response) ==
    IF response.error = NoError
    THEN WireResponse("obj", response.jsonrpc, response.id, response.result, NoWireError)
    ELSE WireResponse("obj", response.jsonrpc, response.id, "absent",
                      WireError("obj", TRUE, response.error.code, TRUE,
                                response.error.message, response.error.data))

----------------------------------------------------------------------------
(* utils.py and protocol/request.py: params, args, kwargs and requests *)

MaxArgs == 2

\* The values that stand for arguments: a scalar, None, a list, a dict.
Elems == {"s1", "None", "l1", "d1"}
\* isinstance(x, constants.JSON_PRIMITIVE_TYPES)
PrimitiveElems == {"s1", "None"}

\* A Python value: constants.NOTHING, a primitive (a scalar or None), a list,
\* a dict (the values of its keys), or a tuple.
Value(kind, items) == [kind |-> kind, items |-> items]
Nothing == Value("NOTHING", <<>>)
Primitive(e) == Value("primitive", <<e>>)
PyNone == Primitive("None")
ListOf(items) == Value("list", items)
DictOf(items) == Value("dict", items)
TupleOf(items) == Value("tuple", items)

\* bool(value)
Truthy(value) ==
    CASE value.kind = "NOTHING" -> TRUE
      [] value.kind = "primitive" -> value.items[1] # "None"
      [] OTHER -> value.items # <<>>

\* What a function of utils.py returns or raises.
ArgsResult(exc, params, args, kwargs) ==
    [exc |-> exc, params |-> params, args |-> args, kwargs |-> kwargs]
ArgsRaised(exc) == ArgsResult(exc, Nothing, PyNone, PyNone)

\* A variant that treats null params as absent params.
ConvertParamsNullAsAbsent(params) ==
    CASE params.kind = "NOTHING" \/ params = PyNone ->
            ArgsResult("none", params, ListOf(<<>>), DictOf(<<>>))
      [] params.kind = "primitive" /\ params # PyNone ->
            ArgsResult("none", params, ListOf(params.items), DictOf(<<>>))
      [] params.kind = "list" -> ArgsResult("none", params, params, DictOf(<<>>))
      [] params.kind = "dict" -> ArgsResult("none", params, ListOf(<<>>), params)
      [] OTHER -> ArgsRaised("InvalidParams")

\* utils.convert_params_to_args_and_kwargs
ConvertParamsToArgsAndKwargs(params) ==
    CASE params.kind = "NOTHING" -> ArgsResult("none", params, ListOf(<<>>), DictOf(<<>>))
      [] params.kind = "primitive" ->
            ArgsResult("none", params, ListOf(params.items), DictOf(<<>>))
      [] params.kind = "list" -> ArgsResult("none", params, params, DictOf(<<>>))
      [] params.kind = "dict" -> ArgsResult("none", params, ListOf(<<>>), params)
      [] OTHER -> ArgsRaised("InvalidParams")

\* A variant that ignores kwargs when args are given.
ParseArgsBeforeKwargs(args, kwargs) ==
    LET has_args == Truthy(args) /\ args # Nothing
        has_kwargs == Truthy(kwargs) /\ kwargs # Nothing
    IN  IF ~has_args /\ ~has_kwargs
        THEN ArgsResult("none", Nothing, ListOf(<<>>), DictOf(<<>>))
        ELSE IF has_args
        THEN LET list == ListOf(args.items)
             IN  IF Len(list.items) = 1 /\ list.items[1] \in PrimitiveElems
                 THEN ArgsResult("none", Primitive(list.items[1]), list, DictOf(<<>>))
                 ELSE ArgsResult("none", list, list, DictOf(<<>>))
        ELSE LET dict == DictOf(kwargs.items)
             IN  ArgsResult("none", dict, ListOf(<<>>), dict)

\* utils.parse_args_and_kwargs
ParseArgsAndKwargs(args, kwargs) ==
    LET has_args == Truthy(args) /\ args # Nothing
        has_kwargs == Truthy(kwargs) /\ kwargs # Nothing
    IN  IF ~has_args /\ ~has_kwargs
        THEN ArgsResult("none", Nothing, ListOf(<<>>), DictOf(<<>>))
        ELSE IF has_args = has_kwargs THEN ArgsRaised("InvalidParams")
        ELSE IF has_args
        THEN LET list == ListOf(args.items)
             IN  IF Len(list.items) = 1 /\ list.items[1] \in PrimitiveElems
                 THEN ArgsResult("none", Primitive(list.items[1]), list, DictOf(<<>>))
                 ELSE ArgsResult("none", list, list, DictOf(<<>>))
        ELSE LET dict == DictOf(kwargs.items)
             IN  ArgsResult("none", dict, ListOf(<<>>), dict)

\* A JsonRpcRequest.
Request(method_name, id, jsonrpc, params, args, kwargs) ==
    [method_name |-> method_name, id |-> id, jsonrpc |-> jsonrpc,
     params |-> params, args |-> args, kwargs |-> kwargs]
NoRequest == Request("none", Null, "2.0", Nothing, PyNone, PyNone)

\* What building or loading a request returns or raises, and the check that raised.
RequestResult(exc, check, request) == [exc |-> exc, check |-> check, request |-> request]

\* JsonRpcRequest.__post_init__
RequestInit(method_name, id, jsonrpc, params, args, kwargs) ==
    IF jsonrpc # "2.0" THEN RequestResult("InvalidRequest", "version", NoRequest)
    ELSE IF params = Nothing
    THEN LET r == ParseArgsAndKwargs(args, kwargs)
         IN  IF r.exc # "none" THEN RequestResult(r.exc, "args_and_kwargs", NoRequest)
             ELSE RequestResult("none", "none",
                                Request(method_name, id, jsonrpc, r.params, r.args, r.kwargs))
    ELSE IF args = PyNone /\ kwargs = PyNone
    THEN LET r == ConvertParamsToArgsAndKwargs(params)
         IN  IF r.exc # "none" THEN RequestResult(r.exc, "params_type", NoRequest)
             ELSE RequestResult("none", "none",
                                Request(method_name, id, jsonrpc, params, r.args, r.kwargs))
    ELSE RequestResult("InvalidParams", "params_or_args", NoRequest)

\* A decoded request: an object, or another value; "method", "jsonrpc", "id"
\* and "params" (Nothing) may be absent.
WireRequest(kind, hasMethod, method, jsonrpc, hasId, id, params) ==
    [kind |-> kind, hasMethod |-> hasMethod, method |-> method, jsonrpc |-> jsonrpc,
     hasId |-> hasId, id |-> id, params |-> params]
NoWireRequest == WireRequest("other", FALSE, "none", "absent", FALSE, Null, Nothing)

\* JsonRpcRequest.load with _validate_json_request
RequestLoad(data) ==
    IF data.kind # "obj" THEN RequestResult("InvalidRequest", "type", NoRequest)
    ELSE IF ~(data.hasMethod /\ data.jsonrpc # "absent")
    THEN RequestResult("InvalidRequest", "keys", NoRequest)
    ELSE IF data.jsonrpc # "2.0" THEN RequestResult("InvalidRequest", "version", NoRequest)
    ELSE RequestInit(data.method, IF data.hasId THEN data.id ELSE Null, data.jsonrpc,
                     data.params, PyNone, PyNone)

\* A variant that leaves out params that are None.
RequestDumpWithoutNullParams(request) ==
    WireRequest("obj", TRUE, request.method_name, request.jsonrpc,
                request.id # Null, request.id,
                IF request.params = PyNone THEN Nothing ELSE request.params)

\* JsonRpcRequest.dump
RequestDump(request) ==
    WireRequest("obj", TRUE, request.method_name, request.jsonrpc,
                request.id # Null, request.id, request.params)

----------------------------------------------------------------------------
(* BaseJsonRpcClient: call, notify, batch, batch_notify over send_json *)

\* The method called: call / notify with or without positional and named
\* arguments; batch / batch_notify with the ids of its requests (Null: a
\* request without id) and save_order.
ClApi(api, requests, save_order, args, kwargs) ==
    [api |-> api, requests |-> requests, save_order |-> save_order,
     args |-> args, kwargs |-> kwargs]
ClApis == {ClApi("call", <<1>>, TRUE, a, k) : a, k \in BOOLEAN}
          \cup {ClApi("notify", <<Null>>, TRUE, a, k) : a, k \in BOOLEAN}
          \cup {ClApi("batch", r, o, FALSE, FALSE) :
                   r \in SeqsUpTo(OptBatchIds, MaxRequests), o \in BOOLEAN}
          \cup {ClApi("batch_notify", r, TRUE, FALSE, FALSE) :
                   r \in SeqsUpTo({Null}, MaxRequests)}

\* The error objects a response on the wire may carry: a code that is
\* registered, one that is not, and zero; with or without message and data.
WireCodes == {-32601, 5, NoCode}
WireErrors == {NoWireError, WireError("scalar", FALSE, NoCode, FALSE, "None", "None"),
               WireError("obj", FALSE, NoCode, TRUE, "m1", "None"),
               WireError("obj", TRUE, 5, FALSE, "None", "None")}
              \cup {WireError("obj", TRUE, c, TRUE, m, d) :
                       c \in WireCodes, m \in {"None", "m1"}, d \in {"None", "d1"}}

\* What send_json may return for a single call.
WireResponses == {WireResponse("other", "absent", Null, "absent", NoWireError)}
                 \cup {WireResponse("obj", v, id, r, e) :
                          v \in {"2.0", "1.0", "absent"}, id \in OptBatchIds,
                          r \in {"absent", "None", "r1"}, e \in WireErrors}

\* The error objects of the elements of a batch response.
BatchWireErrors == {WireError("obj", TRUE, c, TRUE, "m1", "None") : c \in {-32601, NoCode}}

\* The elements of a batch response: a result, an error, or neither.
BatchWireResponses ==
    {WireResponse("obj", "2.0", id, r, e) :
        id \in OptBatchIds,
        r \in {"absent", "r1"},
        e \in {NoWireError} \cup BatchWireErrors}
    \ {WireResponse("obj", "2.0", id, "r1", e) : id \in OptBatchIds, e \in BatchWireErrors}

\* The decoded json_response: an object, an array, another value, or nothing yet.
ClJson(kind, items) == [kind |-> kind, items |-> items]
NoJson == ClJson("none", <<>>)
BatchJsons == {ClJson("list", s) : s \in SeqsUpTo(BatchWireResponses, MaxRequests)}
              \cup {ClJson("obj", <<w>>) : w \in BatchWireResponses}
              \cup {ClJson("other", <<>>)}

\* One send_json call.
ClSent(ids, without_response) == [ids |-> ids, without_response |-> without_response]

\* What the method returned ("returned": values, "returned_none": None) or
\* raised (the exception's class, and the error object of a response).
ClOutcome(type, exc, error, values) ==
    [type |-> type, exc |-> exc, error |-> error, values |-> values]
ClPending == ClOutcome("pending", "none", NoError, <<>>)
ClReturned(values) == ClOutcome("returned", "none", NoError, values)
ClReturnedNone == ClOutcome("returned_none", "none", NoError, <<>>)
ClRaised(exc) == ClOutcome("raised", exc, NoError, <<>>)
ClRaisedError(error) == ClOutcome("raised", error.cls, error, <<>>)

\* call: `raise response.error` unless it is empty, else `return response.result`.
CallOutcome(json_response) ==
    LET loaded == ResponseLoad(json_response, TRUE)
    IN  IF loaded.exc # "none" THEN ClRaised(loaded.exc)
        ELSE IF loaded.response.error # NoError
        THEN ClRaisedError(loaded.response.error)
        ELSE ClReturned(<<PlainValue(loaded.response.result)>>)

\* The loaded response as _collect_batch_result reads it ("e1": an error object).
ToBatchResponse(response) ==
    BatchResponse(response.id, response.result,
                  IF response.error = NoError THEN "None" ELSE "e1")

\* JsonRpcBatchResponse.load: every item is loaded (without error map); the
\* first item that fails raises.
RECURSIVE LoadAll(_)
LoadAll(items) ==
    IF items = <<>> THEN [exc |-> "none", responses |-> <<>>]
    ELSE LET loaded == ResponseLoad(Head(items), FALSE)
             rest == LoadAll(Tail(items))
         IN  IF loaded.exc # "none" THEN [exc |-> loaded.exc, responses |-> <<>>]
             ELSE IF rest.exc # "none" THEN rest
             ELSE [exc |-> "none",
                   responses |-> <<ToBatchResponse(loaded.response)>> \o rest.responses]

\* _collect_batch_result as a whole.
RECURSIVE CollectAll(_, _, _)
CollectAll(map, unlinked, responses) ==
    IF responses = <<>> THEN [map |-> map, unlinked |-> unlinked]
    ELSE LET r == CollectOne(map, unlinked, Head(responses))
         IN  CollectAll(r.map, r.unlinked, Tail(responses))

CollectBatchResult(requests, responses) ==
    LET c == CollectAll([id \in BatchIds |-> Absent], UnlinkedResults(<<>>), responses)
    IN  [i \in DOMAIN requests |-> ResultFor(c.map, NoneIfEmpty(c.unlinked), requests[i])]

\* batch after send_json returned: direct_batch raises ParseError for an
\* empty response and loads the others; batch returns the collected result,
\* or with save_order=False the result or error of each response.
BatchOutcome(requests, save_order, json_response) ==
    IF json_response.kind = "list" /\ json_response.items = <<>>
    THEN ClRaised("ParseError")
    ELSE IF json_response.kind # "list" THEN ClRaised("InvalidRequest")
    ELSE LET loaded == LoadAll(json_response.items)
         IN  IF loaded.exc # "none" THEN ClRaised(loaded.exc)
             ELSE IF save_order
             THEN ClReturned(CollectBatchResult(requests, loaded.responses))
             ELSE ClReturned([k \in DOMAIN loaded.responses |->
                                PlainValue(ResponseValue(loaded.responses[k]))])

ClInit ==
    /\ cl_api \in ClApis
    /\ cl_pc = "start"
    /\ cl_sent = <<>>
    /\ cl_json = NoJson
    /\ cl_outcome = ClPending

\* call / notify with positional and named arguments: JsonRpcRequest raises
\* InvalidParams (parse_args_and_kwargs) before direct_call.
ClCallInvalidParams ==
    /\ cl_pc = "start"
    /\ cl_api.api \in {"call", "notify"}
    /\ cl_api.args /\ cl_api.kwargs
    /\ cl_outcome' = ClRaised("InvalidParams")
    /\ cl_pc' = "done"
    /\ UNCHANGED <<cl_api, cl_sent, cl_json>>

\* call: direct_call hands the request to send_json and waits.
ClCallSend ==
    /\ cl_pc = "start"
    /\ cl_api.api = "call"
    /\ ~(cl_api.args /\ cl_api.kwargs)
    /\ cl_sent' = Append(cl_sent, ClSent(cl_api.requests, FALSE))
    /\ cl_pc' = "sent"
    /\ UNCHANGED <<cl_api, cl_json, cl_outcome>>

\* notify: direct_call sends without_response and returns None.
ClNotifySend ==
    /\ cl_pc = "start"
    /\ cl_api.api = "notify"
    /\ ~(cl_api.args /\ cl_api.kwargs)
    /\ cl_sent' = Append(cl_sent, ClSent(cl_api.requests, TRUE))
    /\ cl_outcome' = ClReturnedNone
    /\ cl_pc' = "done"
    /\ UNCHANGED <<cl_api, cl_json>>

\* call: send_json returns the response; it is loaded and raised or returned.
ClCallResponse(json_response) ==
    /\ cl_pc = "sent"
    /\ cl_api.api = "call"
    /\ cl_json' = ClJson(json_response.kind, <<json_response>>)
    /\ cl_outcome' = CallOutcome(json_response)
    /\ cl_pc' = "done"
    /\ UNCHANGED <<cl_api, cl_sent>>

\* send_json raises (a timeout, a lost connection).
ClSendRaises(exc) ==
    /\ cl_pc = "sent"
    /\ cl_outcome' = ClRaised(exc)
    /\ cl_pc' = "done"
    /\ UNCHANGED <<cl_api, cl_sent, cl_json>>

\* A variant that hands the empty batch to send_json before it raises.
ClBatchEmptyAfterSending ==
    /\ cl_pc = "start"
    /\ cl_api.api \in {"batch", "batch_notify"}
    /\ cl_api.requests = <<>>
    /\ cl_sent' = Append(cl_sent, ClSent(cl_api.requests, FALSE))
    /\ cl_outcome' = ClRaised("InvalidRequest")
    /\ cl_pc' = "done"
    /\ UNCHANGED <<cl_api, cl_json>>

\* batch / batch_notify with no request: direct_batch raises InvalidRequest
\* before send_json.
ClBatchEmpty ==
    /\ cl_pc = "start"
    /\ cl_api.api \in {"batch", "batch_notify"}
    /\ cl_api.requests = <<>>
    /\ cl_outcome' = ClRaised("InvalidRequest")
    /\ cl_pc' = "done"
    /\ UNCHANGED <<cl_api, cl_sent, cl_json>>

\* batch with a request that has an id: direct_batch hands the batch to
\* send_json and waits.
ClBatchSend ==
    /\ cl_pc = "start"
    /\ cl_api.api \in {"batch", "batch_notify"}
    /\ \E i \in DOMAIN cl_api.requests : cl_api.requests[i] # Null
    /\ cl_sent' = Append(cl_sent, ClSent(cl_api.requests, FALSE))
    /\ cl_pc' = "sent"
    /\ UNCHANGED <<cl_api, cl_json, cl_outcome>>

\* batch / batch_notify with requests that all have no id: direct_batch
\* sends without_response and returns None; batch_notify returns None, batch
\* reads None.responses.
ClBatchSendNotifications ==
    /\ cl_pc = "start"
    /\ cl_api.api \in {"batch", "batch_notify"}
    /\ cl_api.requests # <<>>
    /\ \A i \in DOMAIN cl_api.requests : cl_api.requests[i] = Null
    /\ cl_sent' = Append(cl_sent, ClSent(cl_api.requests, TRUE))
    /\ cl_outcome' = IF cl_api.api = "batch" THEN ClRaised("AttributeError")
                     ELSE ClReturnedNone
    /\ cl_pc' = "done"
    /\ UNCHANGED <<cl_api, cl_json>>

\* batch: send_json returns the batch response.
ClBatchResponse(json_response) ==
    /\ cl_pc = "sent"
    /\ cl_api.api = "batch"
    /\ cl_json' = json_response
    /\ cl_outcome' = BatchOutcome(cl_api.requests, cl_api.save_order, json_response)
    /\ cl_pc' = "done"
    /\ UNCHANGED <<cl_api, cl_sent>>

ClientIdle ==
    /\ cl_api = <<>>
    /\ cl_pc = "idle"
    /\ cl_sent = <<>>
    /\ cl_json = <<>>
    /\ cl_outcome = <<>>

----------------------------------------------------------------------------
(* The functions of the protocol applied to their arguments *)

\* The arguments of an error class.
ErrorArgs(cls, code, message, data) ==
    [cls |-> cls, code |-> code, message |-> message, data |-> data]
NoErrorArgs == ErrorArgs("none", NoCode, "None", "None")

\* The function applied and its arguments.
PrInput(fn, params, args, kwargs, id, request, response, error) ==
    [fn |-> fn, params |-> params, args |-> args, kwargs |-> kwargs, id |-> id,
     request |-> request, response |-> response, error |-> error]

NoWireResponse == WireResponse("other", "absent", Null, "absent", NoWireError)

ArgValues == {PyNone, Nothing}
             \cup {ListOf(s) : s \in SeqsUpTo(Elems, MaxArgs)}
             \cup {TupleOf(s) : s \in SeqsUpTo(Elems, MaxArgs)}
KwargValues == {PyNone, Nothing} \cup {DictOf(s) : s \in SeqsUpTo(Elems, MaxArgs)}
ParamValues == {Nothing} \cup {Primitive(e) : e \in PrimitiveElems}
               \cup {ListOf(s) : s \in SeqsUpTo(Elems, MaxArgs)}
               \cup {DictOf(s) : s \in SeqsUpTo(Elems, MaxArgs)}
               \cup {TupleOf(<<"s1">>)}

WireRequests ==
    {NoWireRequest}
    \cup {WireRequest("obj", m, "m1", v, id # Null, id, params) :
             m \in BOOLEAN, v \in {"2.0", "1.0", "absent"}, id \in {Null, 1},
             params \in {Nothing, PyNone, Primitive("s1"), ListOf(<<"s1">>),
                         DictOf(<<"s1">>), TupleOf(<<"s1">>)}}

ErrorArgsSet ==
    {ErrorArgs(cls, c, m, d) :
        cls \in {"JsonRpcError", "MethodNotFound", "InvalidParams"},
        c \in {NoCode, -32601, 5}, m \in {"None", "m1"}, d \in {"None", "d1"}}

\* The function and the arguments it is applied to.
IsPrInput(input) ==
    \/ \E params \in ParamValues :
          input = PrInput("convert_params", params, PyNone, PyNone, Null, NoWireRequest,
                          NoWireResponse, NoErrorArgs)
    \/ \E args \in ArgValues, kwargs \in KwargValues :
          input = PrInput("parse_args", Nothing, args, kwargs, Null, NoWireRequest,
                          NoWireResponse, NoErrorArgs)
    \/ \E data \in WireRequests :
          input = PrInput("request_load", Nothing, PyNone, PyNone, Null, data,
                          NoWireResponse, NoErrorArgs)
    \/ \E params \in ParamValues, id \in {Null, 1} :
          input = PrInput("request_round_trip", params, PyNone, PyNone, id, NoWireRequest,
                          NoWireResponse, NoErrorArgs)
    \/ \E args \in ArgValues, kwargs \in KwargValues, id \in {Null, 1} :
          input = PrInput("request_round_trip", Nothing, args, kwargs, id, NoWireRequest,
                          NoWireResponse, NoErrorArgs)
    \/ \E data \in WireResponses :
          input = PrInput("response_load", Nothing, PyNone, PyNone, Null, NoWireRequest,
                          data, NoErrorArgs)
    \/ \E e \in ErrorArgsSet :
          input = PrInput("error_round_trip", Nothing, PyNone, PyNone, Null, NoWireRequest,
                          NoWireResponse, e)

\* What the function returned or raised: the exception and the check that
\* raised it, the params, args and kwargs, the request built and the request
\* loaded, the error built and the response loaded.
PrOutput(exc, check, params, args, kwargs, request, loaded, error, response) ==
    [exc |-> exc, check |-> check, params |-> params, args |-> args, kwargs |-> kwargs,
     request |-> request, loaded |-> loaded, error |-> error, response |-> response]
NoPrOutput ==
    PrOutput("none", "none", Nothing, PyNone, PyNone, NoRequest, NoRequest, NoError, NoResponse)

ProtoInit ==
    /\ pr_pc = "input"
    /\ IsPrInput(pr_input)
    /\ pr_output = NoPrOutput

ProtoIdle ==
    /\ pr_pc = "idle"
    /\ pr_input = <<>>
    /\ pr_output = <<>>

\* The function returns or raises.
Applied(fn, output) ==
    /\ pr_pc = "input"
    /\ pr_input.fn = fn
    /\ pr_output' = output
    /\ pr_pc' = "applied"
    /\ UNCHANGED pr_input

ApplyConvertParams ==
    LET r == ConvertParamsToArgsAndKwargs(pr_input.params)
    IN  Applied("convert_params",
                [NoPrOutput EXCEPT !.exc = r.exc, !.args = r.args, !.kwargs = r.kwargs])

ApplyParseArgs ==
    LET r == ParseArgsAndKwargs(pr_input.args, pr_input.kwargs)
    IN  Applied("parse_args",
                [NoPrOutput EXCEPT !.exc = r.exc, !.params = r.params,
                                   !.args = r.args, !.kwargs = r.kwargs])

ApplyRequestLoad ==
    LET r == RequestLoad(pr_input.request)
    IN  Applied("request_load",
                [NoPrOutput EXCEPT !.exc = r.exc, !.check = r.check, !.loaded = r.request])

\* JsonRpcRequest(...), then load(dump()).
ApplyRequestRoundTrip ==
    LET built == RequestInit("m1", pr_input.id, "2.0", pr_input.params,
                             pr_input.args, pr_input.kwargs)
        loaded == RequestLoad(RequestDump(built.request))
    IN  Applied("request_round_trip",
                IF built.exc # "none"
                THEN [NoPrOutput EXCEPT !.exc = built.exc, !.check = built.check]
                ELSE [NoPrOutput EXCEPT !.exc = loaded.exc, !.check = loaded.check,
                                        !.request = built.request,
                                        !.loaded = loaded.request])

ApplyResponseLoad ==
    LET r == ResponseLoad(pr_input.response, TRUE)
    IN  Applied("response_load",
                [NoPrOutput EXCEPT !.exc = r.exc, !.check = r.check,
                                   !.response = r.response])

\* An error is built, JsonRpcResponse(error=error).dump() is loaded with the
\* client's error map.
ApplyErrorRoundTrip ==
    LET a == pr_input.error
        built == JsonRpcErrorInit(a.cls, a.message, a.data, a.code)
        r == ResponseLoad(ResponseDump(Response(Null, "2.0", "None", built.error)), TRUE)
    IN  Applied("error_round_trip",
                IF built.exc # "none"
                THEN [NoPrOutput EXCEPT !.exc = built.exc, !.check = "error_init"]
                ELSE [NoPrOutput EXCEPT !.exc = r.exc, !.check = r.check,
                                        !.error = built.error,
                                        !.response = r.response])

----------------------------------------------------------------------------
(* WsJsonRpcClient: handlers, handler tasks and disconnect *)

MaxTasks == 2

\* json_request_handler and unprocessed_json_response_handler are given, or None.
Handlers(request, unprocessed) == [request |-> request, unprocessed |-> unprocessed]

\* What a handler task does with its frame, given where the frame was routed:
\* a handler that is None is not called.
RouteTaken(route, handlers) ==
    CASE route = "request" ->
            IF handlers.request THEN "json_request_handler" ELSE "dropped"
      [] route = "unprocessed" ->
            IF handlers.unprocessed THEN "unprocessed_json_response_handler"
            ELSE "dropped"
      [] OTHER -> route

RxInit ==
    /\ rx_handlers \in {Handlers(r, u) : r, u \in BOOLEAN}
    /\ rx_route = "none"
    /\ rx_tasks = 0
    /\ rx_disconnect = "none"

RxIdle ==
    /\ rx_handlers = <<>>
    /\ rx_route = <<>>
    /\ rx_tasks = <<>>
    /\ rx_disconnect = <<>>

\* _handle_ws_messages receives a text frame and creates its handler task.
\* The task runs up to its first await: it finishes at once unless it
\* awaits json_request_handler, which returns later.
RxReceive(frame) ==
    /\ ReceiveText(frame)
    /\ LET route == RouteTaken(HandleSingleWsMessage(pending, futures, frame).route,
                               rx_handlers)
       IN  /\ route = "json_request_handler" => rx_tasks < MaxTasks
           /\ rx_route' = route
           /\ rx_tasks' = IF route = "json_request_handler"
                          THEN rx_tasks + 1 ELSE rx_tasks
    /\ UNCHANGED <<rx_handlers, rx_disconnect>>

\* json_request_handler returns: the handler task finishes.
RxTaskDone ==
    /\ rx_tasks > 0
    /\ rx_tasks' = rx_tasks - 1
    /\ UNCHANGED <<ws_vars, rx_handlers, rx_route, rx_disconnect>>

\* disconnect(): _is_closed is set and the connection is closed; then the
\* message worker is awaited.
Disconnect ==
    /\ rx_disconnect = "none"
    /\ rx_disconnect' = "closing"
    /\ ws_closed' = TRUE
    /\ UNCHANGED <<pending, futures, calls, last_task, message_worker,
                   check_worker, has_timeout, rx_handlers, rx_route, rx_tasks>>

\* disconnect(), once the message worker has ended: the check worker is
\* cancelled and awaited, and disconnect returns.
DisconnectReturns ==
    /\ rx_disconnect = "closing"
    /\ message_worker = "done"
    /\ check_worker' = "done"
    /\ rx_disconnect' = "returned"
    /\ UNCHANGED <<pending, futures, calls, last_task, ws_closed, message_worker,
                   has_timeout, rx_handlers, rx_route, rx_tasks>>

----------------------------------------------------------------------------
(* BaseJsonRpcServer.methods and JsonRpcMethod: the registry and the invoker *)

MaxAdds == 2

\* The names of parameters, of keyword arguments and of extra args.
ParamNames == {"a", "b", "rpc_request", "user"}
NotGiven == "not_given"

\* What inspect reports of a function: its positional parameters in declared
\* order, its keyword-only parameters, the parameters that have a default,
\* and whether it has *args and **kwargs.
Signature(args, kwonly, defaults, varargs, varkw) ==
    [args |-> args, kwonly |-> kwonly, defaults |-> defaults,
     varargs |-> varargs, varkw |-> varkw]

\* The functions that are registered: the two methods of the server itself
\* and functions with the signatures of tests/test_args.py.
FuncSignature(func) ==
    CASE func = "get_methods" -> Signature(<<>>, {}, {}, FALSE, FALSE)
      [] func = "get_method" -> Signature(<<"a">>, {}, {}, FALSE, FALSE)
      [] func = "kwargs" -> Signature(<<"a">>, {"b"}, {"a", "b"}, FALSE, FALSE)
      [] func = "varargs" -> Signature(<<"a">>, {}, {"a"}, TRUE, FALSE)
      [] func = "varkw" -> Signature(<<"a">>, {}, {"a"}, FALSE, TRUE)
      [] func = "extra_arg" -> Signature(<<"rpc_request">>, {}, {}, FALSE, FALSE)
      [] func = "extra_kwarg" -> Signature(<<>>, {"rpc_request"}, {}, FALSE, FALSE)
      [] func = "extra_then_arg" ->
            Signature(<<"rpc_request", "a">>, {"user", "b"}, {"b"}, FALSE, FALSE)
      [] func = "arg_then_extra" ->
            Signature(<<"a", "rpc_request">>, {}, {"rpc_request"}, FALSE, FALSE)
Funcs == {"kwargs", "varargs", "varkw", "extra_arg", "extra_kwarg",
          "extra_then_arg", "arg_then_extra"}

\* JsonRpcMethod(func, name=name, add_extra_args=add_extra_args)
JsonRpcMethod(name, func, add_extra_args) ==
    [name |-> name, func |-> func, add_extra_args |-> add_extra_args]

\* BaseJsonRpcServer.__init__ with methods=None.
DefaultMethods ==
    [name \in {"get_method", "get_methods"} |-> JsonRpcMethod(name, name, TRUE)]

\* The outcome of add_method: the registry after it, and what it raised.
AddResult(registry, raised) == [methods |-> registry, raised |-> raised]

\* A variant of add_method that overwrites whatever replace is.
AddMethodAlwaysReplaces(registry, method, replace) ==
    AddResult([name \in DOMAIN registry \cup {method.name} |->
                  IF name = method.name THEN method ELSE registry[name]],
              "none")

\* add_method
AddMethodResult(registry, method, replace) ==
    IF ~replace /\ method.name \in DOMAIN registry
    THEN AddResult(registry, "InvalidParams")
    ELSE AddResult([name \in DOMAIN registry \cup {method.name} |->
                       IF name = method.name THEN method ELSE registry[name]],
                   "none")

\* add_methods: add_method for each method in turn, up to the first that raises.
RECURSIVE AddMethodsResult(_, _, _)
AddMethodsResult(registry, new_methods, replace) ==
    IF new_methods = <<>> THEN AddResult(registry, "none")
    ELSE LET first == AddMethodResult(registry, Head(new_methods), replace)
         IN  IF first.raised # "none" THEN first
             ELSE AddMethodsResult(first.methods, Tail(new_methods), replace)

\* One call of add_method as the log keeps it.
Added(method, replace, raised) ==
    [method |-> method, replace |-> replace, raised |-> raised]

\* The log after add_methods: an entry for each add_method that was called.
RECURSIVE AddMethodsLog(_, _, _)
AddMethodsLog(registry, new_methods, replace) ==
    IF new_methods = <<>> THEN <<>>
    ELSE LET first == AddMethodResult(registry, Head(new_methods), replace)
         IN  <<Added(Head(new_methods), replace, first.raised)>>
             \o (IF first.raised # "none" THEN <<>>
                 ELSE AddMethodsLog(first.methods, Tail(new_methods), replace))

\* The methods given to add_method.
NewMethods ==
    {JsonRpcMethod(name, func, TRUE) : name \in {"get_methods", "method"}, func \in Funcs}

\* Keyword arguments and extra args: for each name its value, or NotGiven.
Keys(mapping) == {name \in ParamNames : mapping[name] # NotGiven}
MappingOf(names, value) ==
    [name \in ParamNames |-> IF name \in names THEN value[name] ELSE NotGiven]
CallerValue == [name \in ParamNames |-> "kw"]
ExtraValue == [name \in ParamNames |->
                  IF name = "rpc_request" THEN "the_request" ELSE "the_user"]
CallArgs == {<<>>, <<"x1">>, <<"x1", "x2">>}
CallKwargs == {MappingOf(names, CallerValue) : names \in SUBSET {"a", "b", "rpc_request"}}
CallExtraArgs == {MappingOf(names, ExtraValue) : names \in SUBSET {"rpc_request", "user"}}
CallNames == {"get_methods", "method", "method_2"}

\* inspect.signature(func).bind(*args, **kwargs) does not raise TypeError.
Bind(sig, args, kwargs) ==
    /\ Len(args) <= Len(sig.args) \/ sig.varargs
    /\ \A name \in Keys(kwargs) :
          name \in Range(sig.args) \cup sig.kwonly \/ sig.varkw
    /\ \A i \in DOMAIN sig.args :
          IF i <= Len(args) THEN sig.args[i] \notin Keys(kwargs)
          ELSE sig.args[i] \in Keys(kwargs) \cup sig.defaults
    /\ \A name \in sig.kwonly : name \in Keys(kwargs) \cup sig.defaults

\* _add_extra_args_in_args: the values of the extra args for the leading
\* supported_args, up to the first that is not an extra arg.
RECURSIVE LeadingExtraArgs(_, _)
LeadingExtraArgs(supported_args, extra_args) ==
    IF supported_args = <<>> \/ Head(supported_args) \notin Keys(extra_args) THEN <<>>
    ELSE <<extra_args[Head(supported_args)]>>
         \o LeadingExtraArgs(Tail(supported_args), extra_args)

AddExtraArgsInArgs(sig, args, extra_args) ==
    LeadingExtraArgs(sig.args, extra_args) \o args

\* _add_extra_kwargs_in_args: the extra args that are keyword-only
\* parameters, updated with the kwargs of the caller.
AddExtraKwargsInArgs(sig, kwargs, extra_args) ==
    LET new_kwargs == MappingOf(Keys(extra_args) \cap sig.kwonly, extra_args)
    IN  IF Keys(new_kwargs) = {} THEN kwargs
        ELSE [name \in ParamNames |->
                 IF kwargs[name] # NotGiven THEN kwargs[name] ELSE new_kwargs[name]]

Passed(args, kwargs) == [args |-> args, kwargs |-> kwargs]

\* _add_extra_args_in_args_and_kwargs
AddExtraArgsInArgsAndKwargs(sig, args, kwargs, extra_args) ==
    LET new_args == AddExtraArgsInArgs(sig, args, extra_args)
    IN  IF Len(new_args) - Len(args) = Cardinality(Keys(extra_args))
        THEN Passed(new_args, kwargs)
        ELSE Passed(new_args, AddExtraKwargsInArgs(sig, kwargs, extra_args))

\* The outcome of JsonRpcMethod.__call__: what was passed to the function,
\* whether its body ran, and what the call raised.
Invoked(passed, executed, raised) ==
    [passed |-> passed, executed |-> executed, raised |-> raised]

\* A variant of __call__ that checks the signature after the body has run.
MethodCallChecksAfter(method, args, kwargs, extra_args) ==
    LET sig == FuncSignature(method.func)
        passed == IF method.add_extra_args /\ Keys(extra_args) # {}
                  THEN AddExtraArgsInArgsAndKwargs(sig, args, kwargs, extra_args)
                  ELSE Passed(args, kwargs)
    IN  IF Bind(sig, passed.args, passed.kwargs)
        THEN Invoked(passed, TRUE, "none")
        ELSE Invoked(passed, TRUE, "InvalidParams")

\* JsonRpcMethod.__call__
MethodCall(method, args, kwargs, extra_args) ==
    LET sig == FuncSignature(method.func)
        passed == IF method.add_extra_args /\ Keys(extra_args) # {}
                  THEN AddExtraArgsInArgsAndKwargs(sig, args, kwargs, extra_args)
                  ELSE Passed(args, kwargs)
    IN  IF Bind(sig, passed.args, passed.kwargs)
        THEN Invoked(passed, TRUE, "none")
        ELSE Invoked(passed, FALSE, "InvalidParams")

\* One call: BaseJsonRpcServer.call(name, args=, kwargs=, extra_args=).
MCall(pc, name, args, kwargs, extra_args, invoked) ==
    [pc |-> pc, name |-> name, args |-> args, kwargs |-> kwargs,
     extra_args |-> extra_args, invoked |-> invoked]
NotInvoked == Invoked(Passed(<<>>, MappingOf({}, CallerValue)), FALSE, "none")
NoCall == MCall("idle", "none", <<>>, MappingOf({}, CallerValue),
                MappingOf({}, ExtraValue), NotInvoked)

\* The registry of a new server.
RegistryInit ==
    /\ methods = DefaultMethods
    /\ m_log = <<>>
    /\ m_call = NoCall

\* A server on which one method was registered as "method".
InvokerInit ==
    /\ \E func \in Funcs, add_extra_args \in BOOLEAN :
          methods = AddMethodResult(DefaultMethods,
                                    JsonRpcMethod("method", func, add_extra_args),
                                    FALSE).methods
    /\ m_log = <<>>
    /\ m_call = NoCall

MethodsIdle ==
    /\ methods = <<>>
    /\ m_log = <<>>
    /\ m_call = <<>>

\* add_method(method, replace=replace)
AddMethod ==
    /\ Len(m_log) < MaxAdds
    /\ \E method \in NewMethods, replace \in BOOLEAN :
          LET added == AddMethodResult(methods, method, replace)
          IN  /\ methods' = added.methods
              /\ m_log' = Append(m_log, Added(method, replace, added.raised))
    /\ UNCHANGED m_call

\* add_methods(new_methods, replace=replace)
AddMethods ==
    /\ m_log = <<>>
    /\ \E new_methods \in SeqsUpTo(NewMethods, MaxAdds), replace \in BOOLEAN :
          /\ new_methods # <<>>
          /\ methods' = AddMethodsResult(methods, new_methods, replace).methods
          /\ m_log' = AddMethodsLog(methods, new_methods, replace)
    /\ UNCHANGED m_call

\* BaseJsonRpcServer.call: a name that is not registered raises
\* MethodNotFound; else the method is called.
ServerCall ==
    /\ m_call.pc = "idle"
    /\ \E name \in CallNames, args \in CallArgs, kwargs \in CallKwargs,
          extra_args \in CallExtraArgs :
          m_call' = IF name \notin DOMAIN methods
                    THEN MCall("done", name, args, kwargs, extra_args,
                               Invoked(Passed(<<>>, MappingOf({}, CallerValue)),
                                       FALSE, "MethodNotFound"))
                    ELSE MCall("called", name, args, kwargs, extra_args, NotInvoked)
    /\ UNCHANGED <<methods, m_log>>

\* JsonRpcMethod.__call__ of the registered method.
InvokeMethod ==
    /\ m_call.pc = "called"
    /\ m_call' = [m_call EXCEPT
                     !.pc = "done",
                     !.invoked = MethodCall(methods[m_call.name], m_call.args,
                                            m_call.kwargs, m_call.extra_args)]
    /\ UNCHANGED <<methods, m_log>>

----------------------------------------------------------------------------
(* WsJsonRpcServer: the receive loop of one connection *)

MaxFrames == 3

\* What the text of a frame makes _handle_ws_message do: "invalid_json"
\* fails json.loads, "request" gets a response from _process_input_data,
\* "notification" gets None, "raising_batch" is a batch in which a request
\* raised an exception that _raise_exception_if_have raises again.
WsFrameKinds == {"invalid_json", "request", "notification", "raising_batch"}

\* The task of one frame; raised_before is the number of tasks that had
\* raised when the frame was received.
WsTask(kind, state, raised_before) ==
    [kind |-> kind, state |-> state, raised_before |-> raised_before]

RaisedTasks(tasks) == {i \in DOMAIN tasks : tasks[i].state = "raised"}

\* _handle_ws_message: how the task of a frame ends.
HandleWsMessage(kind, closed) ==
    IF kind = "raising_batch" THEN "raised"
    ELSE IF kind = "notification" THEN "returned"
    ELSE IF closed THEN "raised"
    ELSE "sent"

WssInit ==
    /\ wss_loop = "receiving"
    /\ wss_tasks = <<>>
    /\ wss_closed = FALSE

WssIdle ==
    /\ wss_loop = <<>>
    /\ wss_tasks = <<>>
    /\ wss_closed = <<>>

\* _handle_ws_request receives a text frame and starts its task.
WssReceive(kind) ==
    /\ wss_loop = "receiving"
    /\ ~wss_closed
    /\ Len(wss_tasks) < MaxFrames
    /\ wss_tasks' = Append(wss_tasks,
                           WsTask(kind, "created", Cardinality(RaisedTasks(wss_tasks))))
    /\ UNCHANGED <<wss_loop, wss_closed>>

\* A loop that awaits _handle_ws_message itself: what the handler raises
\* ends the loop.
WssHandleMessageInLoop(i) ==
    /\ wss_tasks[i].state = "created"
    /\ wss_tasks' = [wss_tasks EXCEPT
                        ![i].state = HandleWsMessage(wss_tasks[i].kind, wss_closed)]
    /\ wss_loop' = IF HandleWsMessage(wss_tasks[i].kind, wss_closed) = "raised"
                   THEN "done" ELSE wss_loop
    /\ UNCHANGED wss_closed

\* The task of frame i runs _handle_ws_message; what it raises stays in
\* the task.
WssHandleMessage(i) ==
    /\ wss_tasks[i].state = "created"
    /\ wss_tasks' = [wss_tasks EXCEPT
                        ![i].state = HandleWsMessage(wss_tasks[i].kind, wss_closed)]
    /\ UNCHANGED <<wss_loop, wss_closed>>

\* The connection closes.
WssClose ==
    /\ ~wss_closed
    /\ wss_closed' = TRUE
    /\ UNCHANGED <<wss_loop, wss_tasks>>

\* `async for ws_msg in ws_connect` ends on the closed connection.
WssLoopEnds ==
    /\ wss_loop = "receiving"
    /\ wss_closed
    /\ wss_loop' = "done"
    /\ UNCHANGED <<wss_tasks, wss_closed>>

----------------------------------------------------------------------------
(* Specifications: each part runs with the other parts idle *)

WsIdle ==
    /\ pending = EmptyPending
    /\ futures = [c \in CallIds |-> UnusedFuture]
    /\ calls = [c \in CallIds |-> NewCall]
    /\ last_task = NoTask
    /\ ws_closed = FALSE
    /\ message_worker = "running"
    /\ check_worker = "none"
    /\ has_timeout = FALSE

SrvIdle ==
    /\ srv_data = SrvPayload("other", <<>>)
    /\ srv_middlewares = <<>>
    /\ srv_slots = <<>>
    /\ srv_completed = <<>>
    /\ srv_pc = "idle"
    /\ srv_output = NoOutput
    /\ srv_frames = <<>>

BatchIdle ==
    /\ b_requests = <<>>
    /\ b_responses = <<>>
    /\ b_pc = "idle"
    /\ b_i = 0
    /\ responses_map = [id \in BatchIds |-> Absent]
    /\ unlinked_results = UnlinkedResults(<<>>)
    /\ b_result = <<>>

Init == WsInit /\ SrvIdle /\ BatchIdle /\ ClientIdle /\ ProtoIdle /\ ChainIdle /\ MethodsIdle /\ RxIdle /\ WssIdle
WsOnly == UNCHANGED <<srv_vars, batch_vars, client_vars, proto_vars, chain_vars, method_vars, rx_vars, wss_vars>>
Next ==
    \/ \E c \in CallIds, data \in SendData : SendWithoutResponse(c, data) /\ WsOnly
    \/ \E c \in CallIds, data \in SendData : SendWithoutResponseReset(c, data) /\ WsOnly
    \/ \E c \in CallIds, data \in SendData : SendJson(c, data) /\ WsOnly
    \/ \E c \in CallIds, data \in SendData : SendJsonReset(c, data) /\ WsOnly
    \/ \E c \in CallIds : AwaitResult(c) /\ WsOnly
    \/ \E c \in CallIds : AwaitException(c) /\ WsOnly
    \/ \E c \in CallIds : Timeout(c) /\ WsOnly
    \/ \E frame \in Frames : ReceiveText(frame) /\ WsOnly
    \/ CloseWs /\ WsOnly
    \/ ReceiveClose /\ WsOnly
    \/ CheckWsConnection /\ WsOnly
Spec == Init /\ [][Next]_vars

InitServer == WsIdle /\ SrvInit /\ BatchIdle /\ ClientIdle /\ ProtoIdle /\ ChainIdle /\ MethodsIdle /\ RxIdle /\ WssIdle
SrvOnly == UNCHANGED <<ws_vars, batch_vars, client_vars, proto_vars, chain_vars, method_vars, rx_vars, wss_vars>>
NextServer ==
    \/ SrvEmptyBatch /\ SrvOnly
    \/ SrvStartBatch /\ SrvOnly
    \/ \E i \in 1..MaxBatch : SrvCompleteElement(i) /\ SrvOnly
    \/ SrvGatherDone /\ SrvOnly
    \/ SrvSingle /\ SrvOnly
    \/ SrvNotListOrDict /\ SrvOnly
    \/ SrvWsSend /\ SrvOnly
    \/ SrvWsClosed /\ SrvOnly
SpecServer == InitServer /\ [][NextServer]_vars

InitBatch == WsIdle /\ SrvIdle /\ BatchInit /\ ClientIdle /\ ProtoIdle /\ ChainIdle /\ MethodsIdle /\ RxIdle /\ WssIdle
BatchOnly == UNCHANGED <<ws_vars, srv_vars, client_vars, proto_vars, chain_vars, method_vars, rx_vars, wss_vars>>
NextBatch ==
    \/ CollectResponse /\ BatchOnly
    \/ CollectUnlinked /\ BatchOnly
    \/ CollectRequest /\ BatchOnly
    \/ CollectReturn /\ BatchOnly
SpecBatch == InitBatch /\ [][NextBatch]_vars

InitClient == WsIdle /\ SrvIdle /\ BatchIdle /\ ClInit /\ ProtoIdle /\ ChainIdle /\ MethodsIdle /\ RxIdle /\ WssIdle
ClientOnly == UNCHANGED <<ws_vars, srv_vars, batch_vars, proto_vars, chain_vars, method_vars, rx_vars, wss_vars>>
NextClient ==
    \/ ClCallInvalidParams /\ ClientOnly
    \/ ClCallSend /\ ClientOnly
    \/ ClNotifySend /\ ClientOnly
    \/ \E json_response \in WireResponses : ClCallResponse(json_response) /\ ClientOnly
    \/ \E exc \in {"TimeoutError", "ServerError"} : ClSendRaises(exc) /\ ClientOnly
    \/ ClBatchEmpty /\ ClientOnly
    \/ ClBatchSend /\ ClientOnly
    \/ ClBatchSendNotifications /\ ClientOnly
    \/ \E json_response \in BatchJsons : ClBatchResponse(json_response) /\ ClientOnly
SpecClient == InitClient /\ [][NextClient]_vars

InitChain == WsIdle /\ SrvIdle /\ BatchIdle /\ ClientIdle /\ ProtoIdle /\ ChainInit /\ MethodsIdle /\ RxIdle /\ WssIdle
ChainOnly == UNCHANGED <<ws_vars, srv_vars, batch_vars, client_vars, proto_vars, method_vars, rx_vars, wss_vars>>
NextChain ==
    \/ MwAwaitHandler /\ ChainOnly
    \/ MwMiddlewareRaises /\ ChainOnly
    \/ MwProcessSingleRequest /\ ChainOnly
    \/ MwHandlerReturns /\ ChainOnly
SpecChain == InitChain /\ [][NextChain]_vars

InitRegistry == WsIdle /\ SrvIdle /\ BatchIdle /\ ClientIdle /\ ProtoIdle /\ ChainIdle /\ RegistryInit /\ RxIdle /\ WssIdle
InitInvoker == WsIdle /\ SrvIdle /\ BatchIdle /\ ClientIdle /\ ProtoIdle /\ ChainIdle /\ InvokerInit /\ RxIdle /\ WssIdle
MethodsOnly == UNCHANGED <<ws_vars, srv_vars, batch_vars, client_vars, proto_vars, chain_vars, rx_vars, wss_vars>>
NextRegistry ==
    \/ AddMethod /\ MethodsOnly
    \/ AddMethods /\ MethodsOnly
NextInvoker ==
    \/ ServerCall /\ MethodsOnly
    \/ InvokeMethod /\ MethodsOnly
SpecRegistry == InitRegistry /\ [][NextRegistry]_vars
SpecInvoker == InitInvoker /\ [][NextInvoker]_vars

InitReceive == WsInit /\ SrvIdle /\ BatchIdle /\ ClientIdle /\ ProtoIdle /\ ChainIdle /\ MethodsIdle /\ RxInit /\ WssIdle
ReceiveOnly == UNCHANGED <<srv_vars, batch_vars, client_vars, proto_vars, chain_vars, method_vars, wss_vars>>
RxOnly == UNCHANGED rx_vars
\* One call and the frames received while it waits.
NextReceive ==
    \/ \E data \in SendData : SendJson(1, data) /\ RxOnly /\ ReceiveOnly
    \/ AwaitResult(1) /\ RxOnly /\ ReceiveOnly
    \/ \E frame \in Frames \cup RequestObjs \cup BadFrames : RxReceive(frame) /\ ReceiveOnly
    \/ RxTaskDone /\ ReceiveOnly
SpecReceive == InitReceive /\ [][NextReceive]_vars

\* The frames received and disconnect().
NextTeardown ==
    \/ \E frame \in Frames \cup RequestObjs \cup BadFrames : RxReceive(frame) /\ ReceiveOnly
    \/ RxTaskDone /\ ReceiveOnly
    \/ Disconnect /\ ReceiveOnly
    \/ ReceiveClose /\ RxOnly /\ ReceiveOnly
    \/ DisconnectReturns /\ ReceiveOnly
SpecTeardown == InitReceive /\ [][NextTeardown]_vars

InitLive == WsInitAnySettings /\ SrvIdle /\ BatchIdle /\ ClientIdle /\ ProtoIdle /\ ChainIdle /\ MethodsIdle /\ RxIdle /\ WssIdle
\* Calls made while the connection is open, frames and the end of the
\* connection, for every setting.
NextLive ==
    \/ \E c \in CallIds, data \in SendData : ~ws_closed /\ SendJson(c, data) /\ WsOnly
    \/ \E c \in CallIds : AwaitResult(c) /\ WsOnly
    \/ \E c \in CallIds : AwaitException(c) /\ WsOnly
    \/ \E c \in CallIds : Timeout(c) /\ WsOnly
    \/ \E frame \in Frames : ReceiveText(frame) /\ WsOnly
    \/ CloseWs /\ WsOnly
    \/ ReceiveClose /\ WsOnly
    \/ CheckWsConnection /\ WsOnly
\* The event loop resumes a call whose future is done, the timer of wait_for
\* expires, receive() returns the CLOSED message of a closed connection and
\* the check worker wakes up after its sleep. Calls, frames and the moment
\* at which the connection closes are up to the environment.
FairnessLive ==
    /\ \A c \in CallIds : WF_vars(AwaitResult(c) /\ WsOnly)
    /\ \A c \in CallIds : WF_vars(AwaitException(c) /\ WsOnly)
    /\ \A c \in CallIds : WF_vars(Timeout(c) /\ WsOnly)
    /\ WF_vars(ReceiveClose /\ WsOnly)
    /\ WF_vars(CheckWsConnection /\ WsOnly)
SpecLive == InitLive /\ [][NextLive]_vars /\ FairnessLive

InitWsServer == WsIdle /\ SrvIdle /\ BatchIdle /\ ClientIdle /\ ProtoIdle /\ ChainIdle /\ MethodsIdle /\ RxIdle /\ WssInit
WssOnly == UNCHANGED <<ws_vars, srv_vars, batch_vars, client_vars, proto_vars, chain_vars, method_vars, rx_vars>>
NextWsServer ==
    \/ \E kind \in WsFrameKinds : WssReceive(kind) /\ WssOnly
    \/ \E i \in DOMAIN wss_tasks : WssHandleMessage(i) /\ WssOnly
    \/ WssClose /\ WssOnly
    \/ WssLoopEnds /\ WssOnly
SpecWsServer == InitWsServer /\ [][NextWsServer]_vars

InitProtocol == WsIdle /\ SrvIdle /\ BatchIdle /\ ClientIdle /\ ProtoInit /\ ChainIdle /\ MethodsIdle /\ RxIdle /\ WssIdle
ProtoOnly == UNCHANGED <<ws_vars, srv_vars, batch_vars, client_vars, chain_vars, method_vars, rx_vars, wss_vars>>
NextProtocol ==
    \/ ApplyConvertParams /\ ProtoOnly
    \/ ApplyParseArgs /\ ProtoOnly
    \/ ApplyRequestLoad /\ ProtoOnly
    \/ ApplyRequestRoundTrip /\ ProtoOnly
    \/ ApplyResponseLoad /\ ProtoOnly
    \/ ApplyErrorRoundTrip /\ ProtoOnly
SpecProtocol == InitProtocol /\ [][NextProtocol]_vars

----------------------------------------------------------------------------
(* Claims about WsJsonRpcClient (Spec) *)

\* The ids a call registered, and the ids a future's value carries.
CallIdsOf(c) == Range(GetIdsFromJson(calls[c].data))
FrameIds(value) == Range(GetIdsFromJson(value))

\* The step is the handling of an inbound frame that pops the id.
FramePops(id) ==
    /\ pending[id] # NoFuture
    /\ pending'[id] = NoFuture
    /\ calls' = calls
    /\ check_worker' = check_worker

\* The futures of the calls that keep all their entries of the table do not change.
OtherCallsUntouched ==
    \A d \in CallIds :
        (\A j \in Ids : pending[j] = d => pending'[j] = d) => futures'[d] = futures[d]

\* C1: a call's future gets a result only while the call waits, and only the
\* frame that carries an id of that call; the step changes neither the future
\* nor the table entries of a call none of whose ids the frame carries; a
\* call returns only the result of its own future. For single calls with
\* distinct ids: each call returns the frame with its own id, in every
\* arrival order, and resolving it touches no other call.
C1_Step ==
    \A c \in CallIds :
        /\ (futures[c].state # "result" /\ futures'[c].state = "result") =>
              /\ futures[c].state = "pending"
              /\ calls[c].pc = "waiting"
              /\ CallIdsOf(c) \cap FrameIds(futures'[c].value) # {}
              /\ \A d \in CallIds \ {c} :
                    CallIdsOf(d) \cap FrameIds(futures'[c].value) = {} =>
                        /\ futures'[d] = futures[d]
                        /\ calls'[d] = calls[d]
                        /\ \A id \in CallIdsOf(d) : pending'[id] = pending[id]
        /\ (calls[c].pc = "waiting" /\ calls'[c].pc = "returned") =>
              /\ futures[c].state = "result"
              /\ futures' = futures

C1_EachCallGetsItsOwnFrame == [][C1_Step]_vars

\* C1, witness: two single calls with different ids are in flight, the frame
\* of the second arrived first: the second call has returned that frame and
\* the first still waits in the table.
C1_Witness ==
    /\ calls[1].data.kind = "obj" /\ calls[2].data.kind = "obj"
    /\ calls[1].data.id # Null /\ calls[2].data.id # Null
    /\ calls[1].data.id # calls[2].data.id
    /\ calls[2].pc = "returned"
    /\ futures[2] = [state |-> "result", value |-> JsonObj(calls[2].data.id, FALSE)]
    /\ calls[1].pc = "waiting"
    /\ futures[1].state = "pending"
    /\ pending[calls[1].data.id] = 1

\* C2: once the future shared by the ids of a batch has its result, the frame
\* that carries a sibling id of the batch is a no-op: its handler raises
\* nothing and the future of the batch, like every other future, is as before.
C2_Step ==
    \A id \in Ids :
        (/\ FramePops(id)
         /\ calls[pending[id]].data.kind = "list"
         /\ futures[pending[id]].state = "result")
        => /\ last_task'.exc = "none"
           /\ futures'[pending[id]] = futures[pending[id]]
           /\ OtherCallsUntouched

C2_SiblingFrameIsNoOp == [][C2_Step]_vars

\* The step finds the connection lost: a send raises ConnectionResetError, or
\* the connection check finds the socket closed. PendingAtError is the table
\* at that moment: a send has registered its ids already.
PendingAtError(c) ==
    [id \in Ids |-> IF id \in Range(GetIdsFromJson(calls'[c].data)) THEN c ELSE pending[id]]

FailsAll(table) ==
    /\ pending' = EmptyPending
    /\ \A f \in CallIds :
          IF f \in PendingFutures(table)
          THEN IF futures[f].state \in {"pending", "unused"}
               THEN futures'[f] = [state |-> "exception",
                                   value |-> ErrorValue("ServerError")]
               ELSE futures'[f] = futures[f]
          ELSE futures[f].state # "unused" => futures'[f] = futures[f]

\* C3: when a send raises ConnectionResetError or the connection check finds
\* the socket closed, every future of the pending table that is not done gets
\* the exception ServerError, whichever call it belongs to, a future that is
\* done keeps its outcome, and the table is empty afterwards.
C3_Step ==
    /\ (check_worker = "running" /\ check_worker' = "done") => FailsAll(pending)
    /\ \A c \in CallIds :
          (calls[c].pc = "new" /\ calls'[c].pc = "raised") => FailsAll(PendingAtError(c))

C3_ConnectionErrorFailsEveryWaiter == [][C3_Step]_vars

\* C3, witness: the send of the second call raised ConnectionResetError
\* while the first call was waiting: the first call's future holds
\* ServerError, and the table is empty.
C3_Witness ==
    /\ calls[2].pc = "raised"
    /\ calls[1].pc = "waiting"
    /\ check_worker = "running"
    /\ futures[1] = [state |-> "exception", value |-> ErrorValue("ServerError")]
    /\ futures[2].state = "exception"
    /\ CallIdsOf(1) \cap CallIdsOf(2) = {}
    /\ pending = EmptyPending

\* C4: a timeout leaves the pending table as it is, and the frame that
\* arrives later with the id of the call that timed out is a no-op: its
\* handler raises nothing and no future changes.
C4_Step ==
    /\ \A c \in CallIds :
          (calls[c].pc = "waiting" /\ calls'[c].pc = "timeout") => pending' = pending
    /\ \A id \in Ids :
          (FramePops(id) /\ calls[pending[id]].pc = "timeout")
          => /\ last_task'.exc = "none"
             /\ futures'[pending[id]] = futures[pending[id]]
             /\ OtherCallsUntouched

C4_LateFrameIsNoOp == [][C4_Step]_vars

----------------------------------------------------------------------------
(* Claims about BaseJsonRpcServer._process_input_data (SpecServer) *)

\* What each element of the payload yields on its own, in input order.
SrvElementResults ==
    [i \in DOMAIN srv_data.items |->
        ProcessSingleJsonRequest(srv_data.items[i], srv_middlewares)]

\* C5: the responses of a batch output are the responses of the elements that
\* yield one, in the order of the elements in the input array, in whatever
\* order the elements completed.
C5_BatchOutputInInputOrder ==
    srv_output.type = "batch" =>
        srv_output.items = SelectSeq(SrvElementResults, LAMBDA v : v.type = "response")

\* C5, witness: a batch of two elements with different responses, the second
\* element completed first, and the output is built.
C5_Witness ==
    /\ srv_output.type = "batch"
    /\ srv_completed = <<2, 1>>
    /\ Len(srv_output.items) = 2
    /\ srv_output.items[1] # srv_output.items[2]

\* A well-formed request without id.
WellFormedNotification(e) == e.kind = "request" /\ e.id = Null

OnlyNotifications ==
    /\ srv_data.kind \in {"obj", "list"}
    /\ srv_data.items # <<>>
    /\ \A i \in DOMAIN srv_data.items : WellFormedNotification(srv_data.items[i])

\* A method raised an exception that nothing turned into a response.
MethodExceptionPropagates ==
    /\ srv_middlewares = <<>>
    /\ \E i \in DOMAIN srv_data.items : srv_data.items[i].method = "exception"

\* C6: a well-formed request without id has no response in the output: a
\* batch output has one response for each other element and none for it;
\* the output of a batch (or of a single request) made only of such requests
\* is None, unless the exception of a method propagates, and no frame is sent
\* for it.
C6_NotificationsYieldNoResponse ==
    srv_output.type # "pending" =>
        /\ srv_output.type = "batch" =>
              Len(srv_output.items) =
                  Cardinality({i \in DOMAIN srv_data.items :
                                  ~WellFormedNotification(srv_data.items[i])})
        /\ OnlyNotifications =>
              /\ srv_output.type \in {"none", "raised"}
              /\ srv_output.type = "raised" => MethodExceptionPropagates
              /\ srv_frames = <<>>
              /\ srv_pc # "ws_closed"

\* C6, witness: a batch of two notifications whose methods ran was handled
\* on the WebSocket endpoint: the output is None and no frame was sent.
C6_Witness ==
    /\ srv_pc = "handled"
    /\ srv_data.kind = "list"
    /\ Len(srv_data.items) = 2
    /\ OnlyNotifications
    /\ \A i \in DOMAIN srv_data.items : srv_data.items[i].method = "ok"
    /\ srv_output.type = "none"
    /\ srv_frames = <<>>

\* The element fails: it is not an object, its envelope is malformed, its
\* method is unknown, its params are invalid, or its method raises.
ElementFails(e) ==
    e.kind \in {"nondict", "malformed", "unsupported_params"} \/ e.method # "ok"

\* C7: when an element of a batch fails, every other element that has an id
\* still has its response in the batch output.
C7_FailureKeepsSiblingResponses ==
    (srv_pc = "done" /\ srv_data.kind = "list") =>
        \A i, j \in DOMAIN srv_data.items :
            (i # j /\ ElementFails(srv_data.items[i]) /\ srv_data.items[j].id # Null)
            => \E k \in DOMAIN srv_output.items :
                  /\ srv_output.items[k].type = "response"
                  /\ srv_output.items[k].id = srv_data.items[j].id

\* C14: the server answers an empty array with one response object, not an
\* array: an InvalidRequest error whose id is null; over the WebSocket it is
\* the one frame sent.
C14_EmptyArrayYieldsOneInvalidRequest ==
    (/\ srv_data.kind = "list"
     /\ srv_data.items = <<>>
     /\ srv_pc # "start")
    => /\ srv_output = SrvOutput("single", <<SrvResponse(Null, "InvalidRequest")>>)
       /\ srv_pc = "handled" => srv_frames = <<srv_output>>

\* C14, witness: the response to an empty array was sent.
C14_Witness ==
    /\ srv_pc = "handled"
    /\ srv_data.kind = "list"
    /\ srv_data.items = <<>>
    /\ srv_frames = <<SrvOutput("single", <<SrvResponse(Null, "InvalidRequest")>>)>>

----------------------------------------------------------------------------
(* Claims about BaseJsonRpcClient (SpecClient) *)

\* The codes of errors.DEFAULT_KNOWN_ERRORS.
RegisteredCodes == {-32000, -32700, -32600, -32601, -32602, -32603}

\* The response is a version "2.0" object that carries an error object with
\* code and message; or one that carries no error and a result.
CarriesError(w) ==
    /\ w.kind = "obj" /\ w.jsonrpc = "2.0"
    /\ w.error.kind = "obj" /\ w.error.hasCode /\ w.error.hasMessage
CarriesResultOnly(w) ==
    /\ w.kind = "obj" /\ w.jsonrpc = "2.0"
    /\ w.error.kind = "absent" /\ w.result # "absent"

\* C11: a call whose response carries an error raises it, as MethodNotFound
\* for the code -32601, as the generic JsonRpcError for a code that is not
\* registered, with the code of the response, and returns nothing; a call
\* whose response carries no error returns the result.
C11_ErrorResponseIsRaisedTyped ==
    (cl_pc = "done" /\ cl_api.api = "call" /\ cl_json.kind = "obj") =>
        LET w == cl_json.items[1]
        IN  /\ CarriesError(w) =>
                  /\ cl_outcome.type = "raised"
                  /\ cl_outcome.error.code = w.error.code
                  /\ w.error.code = -32601 => cl_outcome.exc = "MethodNotFound"
                  /\ w.error.code \notin RegisteredCodes => cl_outcome.exc = "JsonRpcError"
            /\ CarriesResultOnly(w) => cl_outcome = ClReturned(<<PlainValue(w.result)>>)

\* The value of a well-formed response: "e1" stands for its error object.
WireValue(w) == IF CarriesError(w) THEN "e1" ELSE w.result

\* Every element of the batch response carries an error or a result.
ElementsWellFormed ==
    /\ cl_json.kind = "list"
    /\ cl_json.items # <<>>
    /\ \A k \in DOMAIN cl_json.items :
          CarriesError(cl_json.items[k]) \/ CarriesResultOnly(cl_json.items[k])

\* C12: a batch whose response is an array of responses, with errors or
\* results, returns: with save_order=False the result or the error of each
\* response at its position, with save_order=True one entry per request, the
\* error or the result of the one response that carries the request's id.
\* batch raises only when the batch is empty or holds no request with an id,
\* send_json raises, the response is not a non-empty array, or an element is
\* neither an error nor a result.
C12_BatchReturnsErrorsInline ==
    (cl_pc = "done" /\ cl_api.api = "batch") =>
        /\ ElementsWellFormed =>
              /\ cl_outcome.type = "returned"
              /\ ~cl_api.save_order =>
                    cl_outcome.values =
                        [k \in DOMAIN cl_json.items |-> PlainValue(WireValue(cl_json.items[k]))]
              /\ cl_api.save_order =>
                    /\ Len(cl_outcome.values) = Len(cl_api.requests)
                    /\ \A i \in DOMAIN cl_api.requests, k \in DOMAIN cl_json.items :
                          (/\ cl_api.requests[i] # Null
                           /\ cl_json.items[k].id = cl_api.requests[i]
                           /\ \A j \in DOMAIN cl_json.items :
                                 j # k => cl_json.items[j].id # cl_api.requests[i])
                          => cl_outcome.values[i] = PlainValue(WireValue(cl_json.items[k]))
        /\ cl_outcome.type = "raised" =>
              \/ cl_api.requests = <<>>
              \/ \A i \in DOMAIN cl_api.requests : cl_api.requests[i] = Null
              \/ cl_json = NoJson
              \/ ~ElementsWellFormed

\* C12, witness: a batch of two requests returned; the response of the first
\* carries an error, that of the second a result, each at its position.
C12_Witness ==
    /\ cl_pc = "done"
    /\ cl_api.api = "batch"
    /\ cl_api.save_order
    /\ cl_api.requests = <<1, 2>>
    /\ Len(cl_json.items) = 2
    /\ cl_json.items[1].id = 1 /\ CarriesError(cl_json.items[1])
    /\ cl_json.items[2].id = 2 /\ CarriesResultOnly(cl_json.items[2])
    /\ cl_outcome = ClReturned(<<PlainValue("e1"), PlainValue("r1")>>)

\* C13: batch and batch_notify with an empty list of methods raise
\* InvalidRequest and send_json was not called: nothing was sent, and no
\* response was waited for.
C13_EmptyBatchRaisesBeforeSending ==
    (/\ cl_api.api \in {"batch", "batch_notify"}
     /\ cl_api.requests = <<>>)
    => /\ cl_sent = <<>>
       /\ cl_json = NoJson
       /\ cl_pc \in {"start", "done"}
       /\ cl_pc = "done" => cl_outcome = ClRaised("InvalidRequest")

\* C13, witness: batch_notify with an empty list has raised.
C13_Witness ==
    /\ cl_pc = "done"
    /\ cl_api.api = "batch_notify"
    /\ cl_api.requests = <<>>
    /\ cl_outcome = ClRaised("InvalidRequest")
    /\ cl_sent = <<>>

----------------------------------------------------------------------------
(* Claims about _collect_batch_result (SpecBatch) *)

\* The responses of the batch response that carry the id, in arrival order.
ResponsesWithId(id) == SelectSeq(b_responses, LAMBDA r : r.id = id)

\* The result of a response without error, else its error.
ResultOrError(r) == IF r.error = "None" THEN r.result ELSE r.error
ResultsOrErrors(rs) == [k \in DOMAIN rs |-> ResultOrError(rs[k])]

\* The values of the responses without id, in arrival order.
IdLessValues == ResultsOrErrors(ResponsesWithId(Null))

\* The request at position i is a notification or its id got no response.
NoResponseFor(i) == b_requests[i] = Null \/ ResponsesWithId(b_requests[i]) = <<>>

\* The entry at position i is the result or error of the one response that
\* carries the id of request i.
LinkedByRequestOrder(i) ==
    Len(ResponsesWithId(b_requests[i])) = 1
        => b_result[i] = PlainValue(ResultOrError(ResponsesWithId(b_requests[i])[1]))

C9_UnknownIdGoesToUnlinked ==
    b_pc = "done" =>
        \A k \in DOMAIN b_responses :
            (b_responses[k].id # Null /\ b_responses[k].id \notin Range(b_requests))
                => /\ unlinked_results.kind = "unlinked"
                   /\ ResultOrError(b_responses[k]) \in Range(unlinked_results.data)

\* C10: when two or more responses carry the same id, the slot of that id
\* (in responses_map, and at the position of each request with that id) holds
\* a duplicated-results collector with the values of all of them in arrival order.
C10_DuplicatedResultsKeepEveryValue ==
    b_pc = "done" =>
        \A id \in BatchIds :
            Len(ResponsesWithId(id)) >= 2
                => /\ responses_map[id]
                        = DuplicatedResults(ResultsOrErrors(ResponsesWithId(id)))
                   /\ \A i \in DOMAIN b_requests :
                        b_requests[i] = id => b_result[i] = responses_map[id]

\* C10, witness: three responses carried the id of a request, not all with
\* the same value, and the batch has returned.
C10_Witness ==
    /\ b_pc = "done"
    /\ \E i \in DOMAIN b_requests :
          /\ b_requests[i] # Null
          /\ Len(ResponsesWithId(b_requests[i])) = 3
          /\ b_responses[1].result # b_responses[3].result
          /\ b_result[i].kind = "duplicated"

----------------------------------------------------------------------------
(* Claims about the protocol functions (SpecProtocol) *)

\* A request object, or a response object, was loaded and its "jsonrpc" is
\* not "2.0".
WrongVersionRequest ==
    /\ pr_pc = "applied" /\ pr_input.fn = "request_load"
    /\ pr_input.request.kind = "obj" /\ pr_input.request.jsonrpc # "2.0"
WrongVersionResponse ==
    /\ pr_pc = "applied" /\ pr_input.fn = "response_load"
    /\ pr_input.response.kind = "obj" /\ pr_input.response.jsonrpc # "2.0"

\* C15, as stated: a request or response object whose jsonrpc is not "2.0",
\* or absent, fails with InvalidRequest, raised by the version check whatever
\* else is wrong with the object.
C15_VersionCheckedBeforeAnythingElse ==
    (WrongVersionRequest \/ WrongVersionResponse) =>
        /\ pr_output.exc = "InvalidRequest"
        /\ pr_output.check = "version"

\* C15: a request or response object whose jsonrpc is not "2.0", or absent,
\* fails with InvalidRequest. For a response the version check raises it,
\* whatever else is wrong with the object. For a request the check that the
\* keys "method" and "jsonrpc" are present comes first and raises it when
\* one of them is absent; otherwise the version check raises it, before the
\* params are looked at.
C15_WrongVersionIsInvalidRequest ==
    /\ WrongVersionResponse =>
          /\ pr_output.exc = "InvalidRequest"
          /\ pr_output.check = "version"
    /\ WrongVersionRequest =>
          /\ pr_output.exc = "InvalidRequest"
          /\ pr_output.check =
                IF pr_input.request.hasMethod /\ pr_input.request.jsonrpc # "absent"
                THEN "version" ELSE "keys"

\* C15, witness: a request of version "1.0" whose params have an unsupported
\* type was rejected by the version check.
C15_Witness ==
    /\ WrongVersionRequest
    /\ pr_input.request.hasMethod
    /\ pr_input.request.jsonrpc = "1.0"
    /\ pr_input.request.params.kind = "tuple"
    /\ pr_output.exc = "InvalidRequest"
    /\ pr_output.check = "version"

\* The request of the round trip, as JsonRpcRequest builds it.
BuiltRequest ==
    RequestInit("m1", pr_input.id, "2.0", pr_input.params, pr_input.args, pr_input.kwargs)

\* C16: for a request built from a method name, an id or none, and params or
\* args and kwargs, loading the dumped request succeeds and gives a request
\* with the same id, method name, jsonrpc, params, args and kwargs.
C16_RequestRoundTrip ==
    (/\ pr_pc = "applied"
     /\ pr_input.fn = "request_round_trip"
     /\ BuiltRequest.exc = "none")
    => /\ pr_output.exc = "none"
       /\ pr_output.request = BuiltRequest.request
       /\ pr_output.loaded.id = pr_output.request.id
       /\ pr_output.loaded.method_name = pr_output.request.method_name
       /\ pr_output.loaded.jsonrpc = pr_output.request.jsonrpc
       /\ pr_output.loaded.params = pr_output.request.params
       /\ pr_output.loaded.args = pr_output.request.args
       /\ pr_output.loaded.kwargs = pr_output.request.kwargs

\* C16, witness: a request with an id and the one positional argument None,
\* whose params are null, went through the round trip.
C16_Witness ==
    /\ pr_pc = "applied"
    /\ pr_input.fn = "request_round_trip"
    /\ pr_input.id = 1
    /\ pr_input.args = TupleOf(<<"None">>)
    /\ pr_output.exc = "none"
    /\ pr_output.request.params = PyNone
    /\ pr_output.loaded = Request("m1", 1, "2.0", PyNone, ListOf(<<"None">>), DictOf(<<>>))

\* C17: convert_params_to_args_and_kwargs gives no arguments for absent
\* params, the one positional argument params for a scalar or null, the
\* positional arguments params for an array, the named arguments params for
\* an object, and raises InvalidParams for a value of another type.
C17_ConvertParams ==
    (pr_pc = "applied" /\ pr_input.fn = "convert_params") =>
        LET params == pr_input.params
        IN  /\ params = Nothing =>
                  /\ pr_output.exc = "none"
                  /\ pr_output.args = ListOf(<<>>) /\ pr_output.kwargs = DictOf(<<>>)
            /\ params.kind = "primitive" =>
                  /\ pr_output.exc = "none"
                  /\ pr_output.args = ListOf(<<params.items[1]>>)
                  /\ pr_output.kwargs = DictOf(<<>>)
            /\ params.kind = "list" =>
                  /\ pr_output.exc = "none"
                  /\ pr_output.args = params /\ pr_output.kwargs = DictOf(<<>>)
            /\ params.kind = "dict" =>
                  /\ pr_output.exc = "none"
                  /\ pr_output.args = ListOf(<<>>) /\ pr_output.kwargs = params
            /\ params.kind \notin {"NOTHING", "primitive", "list", "dict"} =>
                  pr_output.exc = "InvalidParams"

\* C17, witness: null params gave the one positional argument None.
C17_Witness ==
    /\ pr_pc = "applied"
    /\ pr_input.fn = "convert_params"
    /\ pr_input.params = PyNone
    /\ pr_output.exc = "none"
    /\ pr_output.args = ListOf(<<"None">>)
    /\ pr_output.kwargs = DictOf(<<>>)

\* The positional, or named, arguments are given and not empty.
Given(value) == value.kind \in {"list", "tuple", "dict"} /\ value.items # <<>>

\* C18: parse_args_and_kwargs gives absent params when neither args nor
\* kwargs are given, the argument itself when args is one scalar or null
\* argument, the list of args when only args are given, the dict of kwargs
\* when only kwargs are given, and raises InvalidParams when both are given;
\* building a request from args and kwargs that are both given, as the
\* client's call and notify do before they send it, raises InvalidParams.
C18_ParseArgsAndKwargs ==
    /\ (pr_pc = "applied" /\ pr_input.fn = "parse_args") =>
          LET args == pr_input.args
              kwargs == pr_input.kwargs
          IN  /\ (~Given(args) /\ ~Given(kwargs)) =>
                    /\ pr_output.exc = "none"
                    /\ pr_output.params = Nothing
                    /\ pr_output.args = ListOf(<<>>) /\ pr_output.kwargs = DictOf(<<>>)
              /\ (Given(args) /\ ~Given(kwargs)) =>
                    /\ pr_output.exc = "none"
                    /\ pr_output.args = ListOf(args.items)
                    /\ pr_output.kwargs = DictOf(<<>>)
                    /\ pr_output.params =
                          IF Len(args.items) = 1 /\ args.items[1] \in PrimitiveElems
                          THEN Primitive(args.items[1])
                          ELSE ListOf(args.items)
              /\ (~Given(args) /\ Given(kwargs)) =>
                    /\ pr_output.exc = "none"
                    /\ pr_output.params = kwargs
                    /\ pr_output.args = ListOf(<<>>) /\ pr_output.kwargs = kwargs
              /\ (Given(args) /\ Given(kwargs)) => pr_output.exc = "InvalidParams"
    /\ (/\ pr_pc = "applied" /\ pr_input.fn = "request_round_trip"
        /\ pr_input.params = Nothing
        /\ Given(pr_input.args) /\ Given(pr_input.kwargs))
       => /\ pr_output.exc = "InvalidParams"
          /\ pr_output.request = NoRequest

\* C18, witness: one positional and one named argument raised InvalidParams.
C18_Witness ==
    /\ pr_pc = "applied"
    /\ pr_input.fn = "parse_args"
    /\ pr_input.args = TupleOf(<<"s1">>)
    /\ pr_input.kwargs = DictOf(<<"s1">>)
    /\ pr_output.exc = "InvalidParams"

\* C19: a response object of version "2.0" that carries both "result" and
\* "error", or neither, is rejected with InvalidRequest.
C19_ExactlyOneOfResultAndError ==
    (/\ pr_pc = "applied"
     /\ pr_input.fn = "response_load"
     /\ pr_input.response.kind = "obj"
     /\ pr_input.response.jsonrpc = "2.0"
     /\ (pr_input.response.result = "absent") = (pr_input.response.error.kind = "absent"))
    => pr_output.exc = "InvalidRequest"

\* The error of the round trip was built, dumped and loaded.
ErrorRoundTripped ==
    /\ pr_pc = "applied"
    /\ pr_input.fn = "error_round_trip"
    /\ pr_output.error # NoError

\* C20, as stated: the error loaded from the dumped response has the code,
\* message and data of the error that was built, and an error built as
\* MethodNotFound has the code -32601.
C20_ErrorRoundTripKeepsAll ==
    ErrorRoundTripped =>
        /\ pr_output.exc = "none"
        /\ pr_output.response.error.code = pr_output.error.code
        /\ pr_output.response.error.message = pr_output.error.message
        /\ pr_output.response.error.data = pr_output.error.data
        /\ pr_input.error.cls = "MethodNotFound" => pr_output.error.code = -32601

\* C20: the error loaded from the dumped response has the code and data of
\* the error that was built, and its message when it has one; for an error
\* without message the loaded error has the message of the class registered
\* for the code. An error built as MethodNotFound has the code -32601 unless
\* it was built with another code, which it then has.
C20_ErrorRoundTrip ==
    ErrorRoundTripped =>
        /\ pr_output.exc = "none"
        /\ pr_output.response.error.code = pr_output.error.code
        /\ pr_output.response.error.data = pr_output.error.data
        /\ pr_output.response.error.message =
              IF pr_output.error.message = "None"
              THEN ClassMessage(ErrorMapGet(pr_output.error.code))
              ELSE pr_output.error.message
        /\ pr_input.error.cls = "MethodNotFound" =>
              pr_output.error.code =
                  IF pr_input.error.code = NoCode THEN -32601 ELSE pr_input.error.code

\* C20, witness: an error with code, message and data went through the round
\* trip unchanged.
C20_Witness ==
    /\ ErrorRoundTripped
    /\ pr_input.error = ErrorArgs("JsonRpcError", 5, "m1", "d1")
    /\ pr_output.exc = "none"
    /\ pr_output.response.error = ErrorObj("JsonRpcError", 5, "m1", "d1")

----------------------------------------------------------------------------
(* Claims about the middleware chain (SpecChain) *)

\* The positions, in self.middlewares, of the handlers that saw the request,
\* and of those to which their handler returned or raised, in order.
ListedOf(ev) ==
    LET events == SelectSeq(mw_trace, LAMBDA e : e.ev = ev)
    IN  [j \in DOMAIN events |-> events[j].listed]
SawRequest == ListedOf("request")
SawHandled == ListedOf("handled")

\* The chain returned or raised to its caller.
MwFinished == mw_run.pc = "up" /\ mw_run.depth = 0

\* The middlewares that await their handler.
Awaits(name) == name \in {"exception_middleware", "extra_args_middleware", "custom"}

\* C21: the chain holds the middlewares in listed order with
\* _process_single_request innermost. The request is seen by the first
\* listed middleware first, then by the next, and by _process_single_request
\* after all of them; what the handlers return or raise is seen in the
\* reverse order, by the first listed middleware last; nothing sees the
\* request twice; when every middleware awaits its handler the request and
\* the outcome pass each middleware exactly once.
C21_MiddlewaresRunInListedOrder ==
    LET n == Len(mw_conf.middlewares)
    IN  /\ Len(mw_chain) = n + 1
        /\ mw_chain[n + 1] = ProcessorEntry
        /\ \A i \in 1..n : mw_chain[i] = ChainEntry(mw_conf.middlewares[i], i)
        /\ Len(SawRequest) <= n + 1
        /\ \A j \in DOMAIN SawRequest : SawRequest[j] = IF j <= n THEN j ELSE 0
        /\ \A j \in DOMAIN SawHandled : SawHandled[j] = Len(SawRequest) - j
        /\ \A j, k \in DOMAIN mw_trace :
              (mw_trace[j].ev = "handled" /\ mw_trace[k].ev = "request") => k < j
        /\ (MwFinished /\ \A i \in 1..n : Awaits(mw_conf.middlewares[i])) =>
              /\ Len(SawRequest) = n + 1
              /\ Len(SawHandled) = n

\* C21, witness: a request went through three middlewares and back.
C21_Witness ==
    /\ MwFinished
    /\ mw_conf.middlewares = <<"custom", "exception_middleware", "extra_args_middleware">>
    /\ SawRequest = <<1, 2, 3, 0>>
    /\ SawHandled = <<3, 2, 1>>

\* What the handler of the first listed middleware returned or raised to it.
HandledByOutermost ==
    LET events == SelectSeq(mw_trace, LAMBDA e : e.ev = "handled" /\ e.listed = 1)
    IN  events[1].value

\* C22: with exception_middleware listed first the chain returns a response
\* with the id of the request and raises nothing: a JsonRpcError raised by
\* an inner middleware or by the call is the error of the response, another
\* exception makes it InternalError, and a response of the inner handler is
\* returned as it is.
C22_OutermostExceptionMiddlewareNeverRaises ==
    (/\ MwFinished
     /\ mw_conf.middlewares # <<>>
     /\ mw_conf.middlewares[1] = "exception_middleware")
    => /\ mw_run.value.type = "response"
       /\ mw_run.value.id = mw_conf.request.id
       /\ HandledByOutermost.type = "response" => mw_run.value = HandledByOutermost
       /\ HandledByOutermost.type = "raised" =>
             mw_run.value.error =
                 IF IsJsonRpcError(HandledByOutermost.error)
                 THEN HandledByOutermost.error ELSE "InternalError"

\* C22, witness: the method raised an exception that is not a JsonRpcError,
\* through extra_args_middleware, and the chain returned InternalError.
C22_Witness ==
    /\ MwFinished
    /\ mw_conf.middlewares = <<"exception_middleware", "extra_args_middleware">>
    /\ mw_conf.request = SrvElem("request", 1, "exception")
    /\ HandledByOutermost = SrvRaised("Exception")
    /\ mw_run.value = SrvResponse(1, "InternalError")

\* _process_single_request has just returned or raised to its caller.
ProcessorReturned ==
    /\ mw_trace # <<>>
    /\ mw_trace[Len(mw_trace)] = MwEvent(0, "request", SrvNone)
    /\ mw_run.pc = "up"

\* C23: whatever the middlewares are, an exception of the method body that
\* is not a JsonRpcError leaves the call as InternalError, and a JsonRpcError
\* of the call is the error of the response, unchanged.
C23_InvokerConvertsMethodExceptions ==
    ProcessorReturned =>
        /\ mw_run.value.type = "response"
        /\ mw_conf.request.method = "exception" =>
              mw_run.value = SrvResponse(mw_conf.request.id, "InternalError")
        /\ mw_conf.request.method \in {"unknown", "bad_params"} =>
              mw_run.value = SrvResponse(mw_conf.request.id, Call(mw_conf.request.method))

----------------------------------------------------------------------------
(* Claims about parse and envelope errors (SpecServer) *)

\* The element is not an object, or JsonRpcRequest.load rejects it.
ParseOrEnvelopeError(e) == e.kind \in {"nondict", "malformed", "unsupported_params"}

EnvelopeErrorOf(e) ==
    IF e.kind = "unsupported_params" THEN "InvalidParams" ELSE "InvalidRequest"

\* The number of elements up to the i-th that yield a response.
ResponsesUpTo(i) ==
    Cardinality({j \in 1..i : SrvElementResults[j].type = "response"})

\* C24: an element that is not an object, or that JsonRpcRequest.load
\* rejects, completes with an error response whose id is the id of the
\* element, null when it has none; _process_input_data raises only when the
\* exception of a method propagates, never for such an element, and when it
\* returns, the error response of the element is in its output, in its place.
C24_ParseAndEnvelopeErrorsBecomeResponses ==
    /\ \A i \in DOMAIN srv_slots :
          (srv_slots[i].type # "running" /\ ParseOrEnvelopeError(srv_data.items[i]))
          => srv_slots[i] = SrvResponse(srv_data.items[i].id, EnvelopeErrorOf(srv_data.items[i]))
    /\ srv_output.type = "raised" => MethodExceptionPropagates
    /\ srv_output.type \notin {"pending", "raised"} =>
          \A i \in DOMAIN srv_data.items :
              ParseOrEnvelopeError(srv_data.items[i])
              => /\ srv_output.type \in {"single", "batch"}
                 /\ srv_output.items[ResponsesUpTo(i)] =
                        SrvResponse(srv_data.items[i].id, EnvelopeErrorOf(srv_data.items[i]))

\* C24, witness: a batch of a rejected object with id 2 and an element that
\* is not an object was answered with the two error responses.
C24_Witness ==
    /\ srv_pc = "handled"
    /\ srv_data = SrvPayload("list", <<SrvElem("malformed", 2, "none"),
                                       SrvElem("nondict", Null, "none")>>)
    /\ srv_output = SrvOutput("batch", <<SrvResponse(2, "InvalidRequest"),
                                         SrvResponse(Null, "InvalidRequest")>>)
    /\ srv_frames = <<srv_output>>

\* C25: a payload that is neither an array nor an object is answered with
\* one InvalidRequest response object whose id is null.
C25_NotArrayNorObjectYieldsOneInvalidRequest ==
    (srv_data.kind \in {"str", "other"} /\ srv_pc \notin {"start", "gather"})
    => srv_output = SrvOutput("single", <<SrvResponse(Null, "InvalidRequest")>>)

----------------------------------------------------------------------------
(* Claims about the registry of methods (SpecRegistry) *)

\* The add_method calls before the i-th that were accepted for the name.
AcceptedBefore(name, i) ==
    {j \in 1..(i - 1) : m_log[j].raised = "none" /\ m_log[j].method.name = name}

\* The name was registered when the i-th add_method was called.
RegisteredBefore(name, i) ==
    name \in DOMAIN DefaultMethods \/ AcceptedBefore(name, i) # {}

\* The method of the most recent accepted add_method for the name, or the
\* method the server was constructed with.
MostRecentlyAccepted(name) ==
    LET accepted == AcceptedBefore(name, Len(m_log) + 1)
    IN  IF accepted = {} THEN DefaultMethods[name]
        ELSE m_log[CHOOSE j \in accepted : \A k \in accepted : k <= j].method

\* C26: add_method raises InvalidParams exactly when the name is registered
\* and replace is false, and then the registry keeps what it had; every
\* other add_method is accepted, so that each registered name maps to the
\* method of the most recent accepted add_method for it.
C26_RegistryKeepsMostRecentlyAccepted ==
    /\ \A i \in DOMAIN m_log :
          m_log[i].raised =
              IF ~m_log[i].replace /\ RegisteredBefore(m_log[i].method.name, i)
              THEN "InvalidParams" ELSE "none"
    /\ DOMAIN methods =
          DOMAIN DefaultMethods
          \cup {m_log[i].method.name : i \in {j \in DOMAIN m_log : m_log[j].raised = "none"}}
    /\ \A name \in DOMAIN methods : methods[name] = MostRecentlyAccepted(name)

\* C26, witness: "method" was added, a second add_method for it without
\* replace raised InvalidParams, and the registry has the first method.
C26_Witness ==
    /\ m_log = <<Added(JsonRpcMethod("method", "kwargs", TRUE), FALSE, "none"),
                 Added(JsonRpcMethod("method", "varargs", TRUE), FALSE, "InvalidParams")>>
    /\ methods["method"] = JsonRpcMethod("method", "kwargs", TRUE)

----------------------------------------------------------------------------
(* Claims about the invoker (SpecInvoker) *)

CallDone == m_call.pc = "done"
Called == methods[m_call.name]

\* C27: a call of a name that is not registered raises MethodNotFound; a
\* call whose args and kwargs, with the extra args added, cannot be bound to
\* the signature of the function raises InvalidParams and the body of the
\* function does not run; any other call runs the body.
C27_BindingFailureIsInvalidParams ==
    CallDone =>
        IF m_call.name \notin DOMAIN methods
        THEN m_call.invoked.raised = "MethodNotFound" /\ ~m_call.invoked.executed
        ELSE IF Bind(FuncSignature(Called.func),
                     m_call.invoked.passed.args, m_call.invoked.passed.kwargs)
        THEN m_call.invoked.raised = "none" /\ m_call.invoked.executed
        ELSE m_call.invoked.raised = "InvalidParams" /\ ~m_call.invoked.executed

\* C27, witness: method(a=1, *, b=2) was called with two positional args:
\* InvalidParams, and the body did not run.
C27_Witness ==
    /\ CallDone
    /\ m_call.name = "method"
    /\ Called.func = "kwargs"
    /\ m_call.args = <<"x1", "x2">>
    /\ Keys(m_call.extra_args) = {}
    /\ m_call.invoked.raised = "InvalidParams"
    /\ ~m_call.invoked.executed

\* The number of leading positional parameters that are extra args.
LeadingCount(sig, extra_args) ==
    LET leading == {k \in 0..Len(sig.args) :
                       \A i \in 1..k : sig.args[i] \in Keys(extra_args)}
    IN  CHOOSE k \in leading : \A l \in leading : l <= k

\* C28: with add_extra_args on, the args passed are the values of the extra
\* args for the leading positional parameters that are extra args, in
\* declared order, and then the args of the caller; the kwargs passed are
\* those of the caller with the extra args that are keyword-only parameters
\* added; no other extra arg is passed.
C28_ExtraArgsArePassed ==
    (/\ CallDone
     /\ m_call.name \in DOMAIN methods
     /\ Called.add_extra_args
     /\ Keys(m_call.extra_args) # {})
    => LET sig == FuncSignature(Called.func)
           extra_args == m_call.extra_args
           k == LeadingCount(sig, extra_args)
       IN  /\ m_call.invoked.passed.args =
                 [i \in 1..k |-> extra_args[sig.args[i]]] \o m_call.args
           /\ \A name \in ParamNames :
                 m_call.invoked.passed.kwargs[name] =
                     IF name \in Keys(extra_args) \cap sig.kwonly
                     THEN extra_args[name] ELSE m_call.kwargs[name]

----------------------------------------------------------------------------
(* Claims about send_json and batch frames of WsJsonRpcClient (Spec) *)

\* C29: when send_json hands the frame of a request or of a batch with ids
\* to the transport, every id of the frame is in the pending table, under
\* the future the call then waits for.
C29_Step ==
    \A c \in CallIds :
        (calls[c].pc = "new" /\ calls'[c].pc = "waiting")
        => /\ GetIdsFromJson(calls'[c].data) # <<>>
           /\ futures'[c] = NewFuture
           /\ \A id \in Range(GetIdsFromJson(calls'[c].data)) : pending'[id] = c

C29_IdsRegisteredBeforeSend == [][C29_Step]_vars

\* C29, witness: the frame of a batch of two requests was sent, the call
\* waits, and both ids are in the table under its future.
C29_Witness ==
    /\ calls[1].pc = "waiting"
    /\ calls[1].data.kind = "list"
    /\ CallIdsOf(1) = {1, 2}
    /\ pending[1] = 1 /\ pending[2] = 1
    /\ futures[1] = NewFuture

\* C30: when an array whose first element is not a request is received,
\* every future that is in the pending table under an id of the array and
\* is pending gets the array as its result.
C30_Step ==
    \A frame \in Frames :
        (/\ frame.kind = "list"
         /\ ~frame.items[1].hasMethod
         /\ ReceiveText(frame))
        => \A id \in FrameIds(frame) :
              (pending[id] # NoFuture /\ futures[pending[id]].state = "pending")
              => futures'[pending[id]] = [state |-> "result", value |-> frame]

C30_EveryWaiterOfTheFrameIsResolved == [][C30_Step]_vars

----------------------------------------------------------------------------
(* Claims about the receive loop of WsJsonRpcClient (SpecReceive) *)

\* The id of the frame is a key of the pending table.
IdIsPending(frame) == frame.id # Null /\ pending[frame.id] # NoFuture

\* C31: the task of an inbound object does one thing with it: it calls
\* json_request_handler when the object has a method key (and the handler is
\* given), gives it to the future of its id when the id is in the pending
\* table, calls unprocessed_json_response_handler for any other object (when
\* that handler is given), or drops it; only the second changes the table or
\* a future, so that an object with a method key never resolves a waiter.
C31_Step ==
    \A frame \in Frames \cup RequestObjs :
        (frame.kind = "obj" /\ RxReceive(frame))
        => /\ rx_route' \in {"json_request_handler", "result",
                             "unprocessed_json_response_handler", "dropped"}
           /\ rx_route' = "json_request_handler" <=>
                 (frame.hasMethod /\ rx_handlers.request)
           /\ rx_route' = "result" <=> (~frame.hasMethod /\ IdIsPending(frame))
           /\ rx_route' = "unprocessed_json_response_handler" <=>
                 (~frame.hasMethod /\ ~IdIsPending(frame) /\ rx_handlers.unprocessed)
           /\ rx_route' = "result" =>
                 /\ pending' = [pending EXCEPT ![frame.id] = NoFuture]
                 /\ futures[pending[frame.id]].state = "pending" =>
                       futures'[pending[frame.id]] = [state |-> "result", value |-> frame]
           /\ rx_route' # "result" => (pending' = pending /\ futures' = futures)

C31_EachObjectIsRoutedOnce == [][C31_Step]_vars

\* C31, witness: an object with a method key went to json_request_handler
\* while a call with id 1 waits: the call still waits.
C31_Witness ==
    /\ rx_route = "json_request_handler"
    /\ rx_tasks = 1
    /\ calls[1].pc = "waiting"
    /\ calls[1].data = JsonObj(1, TRUE)
    /\ pending[1] = 1
    /\ futures[1] = NewFuture

\* The frame is a response, or an array whose first element is not a request.
IsResponseFrame(frame) ==
    \/ frame.kind = "obj" /\ ~frame.hasMethod
    \/ frame.kind = "list" /\ ~frame.items[1].hasMethod

\* C32: when unprocessed_json_response_handler is given, it is called for
\* every response frame none of whose ids is in the pending table, an object
\* or an array.
C32_Step ==
    \A frame \in Frames :
        (/\ IsResponseFrame(frame)
         /\ \A id \in FrameIds(frame) : pending[id] = NoFuture
         /\ rx_handlers.unprocessed
         /\ RxReceive(frame))
        => rx_route' = "unprocessed_json_response_handler"

C32_UnmatchedResponsesAreUnprocessed == [][C32_Step]_vars

----------------------------------------------------------------------------
(* Claims about disconnect() of WsJsonRpcClient (SpecTeardown) *)

\* C33: when disconnect() has returned, no handler task that the message
\* worker started is still running.
C33_NoHandlerTaskAfterDisconnect ==
    rx_disconnect = "returned" => rx_tasks = 0

----------------------------------------------------------------------------
(* Claims about the pending table of WsJsonRpcClient (Spec) *)

\* C34: every key of the pending table is an id of the data that a call
\* handed to send_json, and that data is not a notification; a call that
\* hands a notification, or a batch of notifications, registers nothing and
\* does not wait.
C34_PendingKeysAreRequestIds ==
    /\ \A id \in Ids :
          pending[id] # NoFuture =>
              /\ calls[pending[id]].pc # "new"
              /\ id \in CallIdsOf(pending[id])
              /\ ~IsNotification(calls[pending[id]].data)
    /\ \A c \in CallIds :
          (calls[c].pc # "new" /\ IsNotification(calls[c].data)) =>
              /\ calls[c].pc \in {"returned", "raised"}
              /\ \A id \in Ids : pending[id] # c

\* C34, witness: a batch that is one notification has returned, and the
\* only keys of the table are those of the request that waits.
C34_Witness ==
    /\ calls[1].data = JsonList(<<JsonObj(Null, TRUE)>>)
    /\ calls[1].pc = "returned"
    /\ calls[2].data = JsonObj(2, TRUE)
    /\ calls[2].pc = "waiting"
    /\ pending = [EmptyPending EXCEPT ![2] = 2]

\* C35: after a batch call has returned, none of the ids of the batch is a
\* key of the pending table that still points at the future of that call.
C35_ReturnedBatchLeavesNoId ==
    \A c \in CallIds :
        (calls[c].pc = "returned" /\ calls[c].data.kind = "list") =>
            \A id \in CallIdsOf(c) : pending[id] # c

\* C36: a call that registers its ids leaves every key of an unresolved
\* waiter of another call in place, unless the same step completes that
\* waiter.
C36_Step ==
    \A c \in CallIds :
        (calls[c].pc = "new" /\ calls'[c].pc # "new") =>
            \A id \in Ids :
                (/\ pending[id] # NoFuture
                 /\ pending[id] # c
                 /\ futures[pending[id]].state = "pending") =>
                    \/ pending'[id] = pending[id]
                    \/ futures'[pending[id]].state # "pending"

C36_RegisteringDisplacesNoWaiter == [][C36_Step]_vars

----------------------------------------------------------------------------
(* Claims about calls on a closed connection (SpecLive) *)

\* C37: once the connection has closed, every call that waits for a
\* response eventually stops waiting, for every setting of timeout and of
\* connection_check_interval.
C37_ClosedConnectionEndsEveryCall ==
    \A c \in CallIds :
        (ws_closed /\ calls[c].pc = "waiting") ~> (calls[c].pc # "waiting")

----------------------------------------------------------------------------
(* Claims about the values of injected extra args (SpecInvoker) *)

\* self.func(*args, **kwargs): the value that the parameter name receives,
\* positionally when args reaches its position, else by keyword.
Received(sig, passed, name) ==
    IF \E i \in DOMAIN passed.args : i <= Len(sig.args) /\ sig.args[i] = name
    THEN passed.args[CHOOSE i \in DOMAIN passed.args :
                         i <= Len(sig.args) /\ sig.args[i] = name]
    ELSE passed.kwargs[name]

\* The extra args that __call__ injects: those of the leading positional
\* parameters, and those that are keyword-only parameters when not every
\* extra arg was passed positionally.
InjectedNames(sig, extra_args) ==
    LET k == LeadingCount(sig, extra_args)
    IN  {sig.args[i] : i \in 1..k}
        \cup (IF k = Cardinality(Keys(extra_args)) THEN {}
              ELSE Keys(extra_args) \cap sig.kwonly)

\* C38: when the body of a method with add_extra_args runs, every
\* parameter that is an injected extra arg, positional or keyword-only,
\* receives the value of the extra arg, whatever the caller passed.
C38_InjectedValueIsTheFrameworks ==
    (/\ CallDone
     /\ m_call.name \in DOMAIN methods
     /\ Called.add_extra_args
     /\ m_call.invoked.executed)
    => LET sig == FuncSignature(Called.func)
       IN  \A name \in InjectedNames(sig, m_call.extra_args) :
               Received(sig, m_call.invoked.passed, name) = m_call.extra_args[name]

----------------------------------------------------------------------------
(* Claims about the receive loop of WsJsonRpcServer (SpecWsServer) *)

\* C39: a task of _handle_ws_message that raises leaves the receive loop
\* and the tasks of the other frames as they are; the loop ends only on a
\* closed connection; and the task of a frame that has a response sends it
\* while the connection is open, whatever the tasks before it raised.
C39_Step ==
    /\ \A i \in DOMAIN wss_tasks :
          (wss_tasks[i].state = "created" /\ wss_tasks'[i].state = "raised") =>
              /\ wss_loop' = wss_loop
              /\ \A j \in DOMAIN wss_tasks \ {i} : wss_tasks'[j] = wss_tasks[j]
    /\ (wss_loop = "receiving" /\ wss_loop' = "done") => wss_closed
    /\ \A i \in DOMAIN wss_tasks :
          (/\ wss_tasks[i].state = "created"
           /\ wss_tasks'[i].state # "created"
           /\ wss_tasks[i].kind \in {"request", "invalid_json"}
           /\ ~wss_closed) => wss_tasks'[i].state = "sent"

C39_ExceptionLeavesTheLoopRunning == [][C39_Step]_vars

\* C39, witness: the task of a batch raised, a request that was received
\* after that was answered, and the loop is still receiving.
C39_Witness ==
    /\ Len(wss_tasks) = 2
    /\ wss_tasks[1] = WsTask("raising_batch", "raised", 0)
    /\ wss_tasks[2] = WsTask("request", "sent", 1)
    /\ wss_loop = "receiving"
    /\ ~wss_closed

----------------------------------------------------------------------------
(* Claims about bad input in the receive loop of WsJsonRpcClient (SpecReceive) *)

\* C40: a text frame that is not valid JSON, is an empty value, or is a
\* JSON value that is neither an object nor an array is dropped: no handler
\* is called for it, the pending table and the futures stay as they are,
\* and the message worker goes on receiving.
C40_Step ==
    \A frame \in BadFrames :
        RxReceive(frame)
        => /\ rx_route' = "dropped"
           /\ pending' = pending
           /\ futures' = futures
           /\ message_worker' = "running"

C40_BadInputIsDropped == [][C40_Step]_vars

====
